---- MODULE Spec2Model ----
(***************************************************************************)
(* Homevolt integration: the payload summarizer (processor.py), the        *)
(* full-cycle sampler and SOH estimator (capacity.py) and the sensors and  *)
(* coordinator that drive them (sensor.py, coordinator.py).                *)
(*                                                                         *)
(* Python values are tagged records: [t |-> "null"], [t |-> "num", v],     *)
(* [t |-> "bool", v], [t |-> "str", v], [t |-> "list", v |-> sequence],    *)
(* [t |-> "map", v |-> function from keys], [t |-> "bigint"] (an integer   *)
(* beyond the range of a float), and [t |-> "numstr", v] for the string    *)
(* that spells the number v (str(v); float() of it is v again, while a     *)
(* "str" never spells a number).  A number is kept in fixed point: v is    *)
(* the value in thousandths, so 73.45 is 73450 and the integer 7345 is     *)
(* 7345000.  Every divisor the code uses (10, 100, 1000) is exact on the   *)
(* integer device readings in this representation.                         *)
(***************************************************************************)
EXTENDS Integers, Sequences, FiniteSets, TLC

\* ------------------------------------------------------------------------
\* Bounds of the model
\* ------------------------------------------------------------------------
MaxChanges == 2
MaxModules == 2
MaxEntries == 2
MaxRecords == 2
MaxPacks == 2
MaxTicks == 3

\* One unit of a number, in thousandths.
Milli == 10 * 10 * 10

\* ------------------------------------------------------------------------
\* Python values
\* ------------------------------------------------------------------------
None == [t |-> "null"]
Num(n) == [t |-> "num", v |-> n]
IntJ(n) == [t |-> "num", v |-> n * Milli]
Bool(b) == [t |-> "bool", v |-> b]
Str(s) == [t |-> "str", v |-> s]
NumStr(n) == [t |-> "numstr", v |-> n]
List(s) == [t |-> "list", v |-> s]
Map(f) == [t |-> "map", v |-> f]
BigInt == [t |-> "bigint"]
EmptyMap == [k \in {} |-> None]

IsNone(x) == x.t = "null"

\* isinstance(x, (int, float)): bool is a subclass of int.
IsNumber(x) == x.t \in {"num", "bool"}

\* The float a number stands for, in thousandths (True is 1, False is 0).
NumVal(x) == IF x.t = "bool" THEN (IF x.v THEN Milli ELSE 0) ELSE x.v

\* ------------------------------------------------------------------------
\* capacity.py
\* ------------------------------------------------------------------------

is_full(soc, threshold) ==
    IF IsNone(soc) THEN FALSE ELSE NumVal(soc) >= threshold

\* sample_when_full without the "if was_full" early return: it samples on
\* every full reading.
sample_when_full_nolatch(current_value, soc, threshold, previous_value, was_full) ==
    IF IsNone(soc) THEN <<previous_value, was_full>>
    ELSE IF ~is_full(soc, threshold) THEN <<previous_value, FALSE>>
    ELSE IF IsNone(current_value) THEN <<previous_value, FALSE>>
    ELSE <<current_value, TRUE>>

\* sample_when_full latching on a full reading that has no usable value.
sample_when_full_latchnull(current_value, soc, threshold, previous_value, was_full) ==
    IF IsNone(soc) THEN <<previous_value, was_full>>
    ELSE IF ~is_full(soc, threshold) THEN <<previous_value, FALSE>>
    ELSE IF was_full THEN <<previous_value, TRUE>>
    ELSE IF IsNone(current_value) THEN <<previous_value, TRUE>>
    ELSE <<current_value, TRUE>>

\* sample_when_full dropping the stored sample on a reading below the
\* threshold.
sample_when_full_clear(current_value, soc, threshold, previous_value, was_full) ==
    IF IsNone(soc) THEN <<previous_value, was_full>>
    ELSE IF ~is_full(soc, threshold) THEN <<None, FALSE>>
    ELSE IF was_full THEN <<previous_value, TRUE>>
    ELSE IF IsNone(current_value) THEN <<previous_value, FALSE>>
    ELSE <<current_value, TRUE>>

\* sample_when_full taking a missing soc for a reading below the threshold.
sample_when_full_nullresets(current_value, soc, threshold, previous_value, was_full) ==
    IF ~is_full(soc, threshold) THEN <<previous_value, FALSE>>
    ELSE IF was_full THEN <<previous_value, TRUE>>
    ELSE IF IsNone(current_value) THEN <<previous_value, FALSE>>
    ELSE <<current_value, TRUE>>

\* sample_when_full releasing the latch on a full reading that finds it set.
sample_when_full_rearm(current_value, soc, threshold, previous_value, was_full) ==
    IF IsNone(soc) THEN <<previous_value, was_full>>
    ELSE IF ~is_full(soc, threshold) THEN <<previous_value, FALSE>>
    ELSE IF was_full THEN <<previous_value, FALSE>>
    ELSE IF IsNone(current_value) THEN <<previous_value, FALSE>>
    ELSE <<current_value, TRUE>>

sample_when_full(current_value, soc, threshold, previous_value, was_full) ==
    IF IsNone(soc) THEN <<previous_value, was_full>>
    ELSE IF ~is_full(soc, threshold) THEN <<previous_value, FALSE>>
    ELSE IF was_full THEN <<previous_value, TRUE>>
    ELSE IF IsNone(current_value) THEN <<previous_value, FALSE>>
    ELSE <<current_value, TRUE>>

\* dict.get(key): None when the key is absent.
Get(m, k) == IF k \in DOMAIN m THEN m[k] ELSE None

RECURSIVE SumEnergy(_)
SumEnergy(modules) ==
    IF Len(modules) = 0 THEN 0
    ELSE NumVal(Get(Head(modules), "energy_available")) + SumEnergy(Tail(modules))

\* round(x, 2) on thousandths: the nearest hundredth, a tie going to the
\* even hundredth.
Round2(x) ==
    LET q == x \div 10
        r == x % 10
    IN IF r < 5 THEN q * 10
       ELSE IF r > 5 THEN (q + 1) * 10
       ELSE IF q % 2 = 0 THEN q * 10 ELSE (q + 1) * 10

ModuleNumeric(module) ==
    IsNumber(Get(module, "soc")) /\ IsNumber(Get(module, "energy_available"))

sample_total_when_full(modules, threshold, previous_value, was_full) ==
    IF Len(modules) = 0 THEN <<previous_value, FALSE>>
    ELSE IF \E i \in 1..Len(modules) : ~ModuleNumeric(modules[i])
    THEN <<previous_value, was_full>>
    ELSE IF ~(\A i \in 1..Len(modules) : is_full(Get(modules[i], "soc"), threshold))
    THEN <<previous_value, FALSE>>
    ELSE IF was_full THEN <<previous_value, TRUE>>
    ELSE <<Num(Round2(SumEnergy(modules))), TRUE>>

\* update_auto_max_baseline keeping the first baseline it adopted.
update_auto_max_baseline_first(current_sample, previous_baseline) ==
    IF IsNone(current_sample) \/ NumVal(current_sample) <= 0 THEN previous_baseline
    ELSE IF IsNone(previous_baseline) THEN Num(NumVal(current_sample))
    ELSE previous_baseline

\* update_auto_max_baseline adopting every positive sample, the highest or not.
update_auto_max_baseline_latest(current_sample, previous_baseline) ==
    IF IsNone(current_sample) \/ NumVal(current_sample) <= 0 THEN previous_baseline
    ELSE Num(NumVal(current_sample))

update_auto_max_baseline(current_sample, previous_baseline) ==
    IF IsNone(current_sample) \/ NumVal(current_sample) <= 0 THEN previous_baseline
    ELSE IF IsNone(previous_baseline) \/ NumVal(current_sample) > NumVal(previous_baseline)
    THEN Num(NumVal(current_sample))
    ELSE previous_baseline

\* select_baseline without the per-module share of the manual baseline.
select_baseline_undivided(strategy, manual_baseline, auto_baseline, module_count) ==
    IF strategy = "manual"
    THEN IF IsNone(manual_baseline) \/ NumVal(manual_baseline) <= 0 THEN None
         ELSE manual_baseline
    ELSE auto_baseline

\* module_count is 0 when the caller passes none (None and 0 are both falsy).
\* The division is exact for the manual baselines of the model.
select_baseline(strategy, manual_baseline, auto_baseline, module_count) ==
    IF strategy = "manual"
    THEN IF IsNone(manual_baseline) \/ NumVal(manual_baseline) <= 0 THEN None
         ELSE IF module_count # 0 THEN Num(NumVal(manual_baseline) \div module_count)
         ELSE manual_baseline
    ELSE auto_baseline

\* round(x, 1) of the quotient n / d (d > 0, n >= 0), in tenths, a tie
\* going to the even tenth.
RoundTenths(n, d) ==
    LET q == (n * 10) \div d
        r == (n * 10) % d
    IN IF 2 * r < d THEN q
       ELSE IF 2 * r > d THEN q + 1
       ELSE IF q % 2 = 0 THEN q ELSE q + 1

\* calculate_soh treating an empty sample like a missing one.
calculate_soh_zero_null(current_sample, baseline) ==
    IF IsNone(current_sample) \/ IsNone(baseline) THEN None
    ELSE IF NumVal(current_sample) <= 0 \/ NumVal(baseline) <= 0 THEN None
    ELSE Num(RoundTenths(NumVal(current_sample) * 100, NumVal(baseline)) * (Milli \div 10))

calculate_soh(current_sample, baseline) ==
    IF IsNone(current_sample) \/ IsNone(baseline) THEN None
    ELSE IF NumVal(current_sample) < 0 \/ NumVal(baseline) <= 0 THEN None
    ELSE Num(RoundTenths(NumVal(current_sample) * 100, NumVal(baseline)) * (Milli \div 10))

\* The exact quotient n / d of two integers (d > 0), in thousandths: what
\* the filter's divisions yield, float rounding aside.
Ratio(n, d) == [t |-> "ratio", n |-> n, d |-> d]

\* 0.0025, as 5/2 thousandths.
DEFAULT_KALMAN_PROCESS_VARIANCE == Ratio(5, 2)

\* max(x, 0.0)
Max0(x) == IF x > 0 THEN x ELSE 0

\* kalman_update seeding an estimator without prior state at variance 0.0.
kalman_update_seedzero(estimate, variance, measurement, measurement_variance, process_variance) ==
    IF IsNone(measurement) THEN <<estimate, variance>>
    ELSE <<measurement, Num(0)>>

\* kalman_update: the pair (estimate, variance).  process_variance is a
\* Ratio; the prior variance is not negative.  With
\* predicted_variance = variance + max(process_variance, 0) = pn / q.d and
\* den = pn + measurement_variance * q.d, the gain is pn / den, the updated
\* estimate (estimate * den + pn * (measurement - estimate)) / den and the
\* updated variance (1 - gain) * predicted_variance = measurement_variance * pn / den.
kalman_update(estimate, variance, measurement, measurement_variance, process_variance) ==
    IF IsNone(measurement) THEN <<estimate, variance>>
    ELSE IF NumVal(measurement_variance) <= 0 THEN <<measurement, Num(0)>>
    ELSE IF IsNone(estimate) \/ IsNone(variance) THEN <<measurement, measurement_variance>>
    ELSE LET q == process_variance
             pn == NumVal(variance) * q.d + Max0(q.n)
             den == pn + NumVal(measurement_variance) * q.d
         IN <<Ratio(NumVal(estimate) * den
                      + pn * (NumVal(measurement) - NumVal(estimate)), den),
              Ratio(Max0(NumVal(measurement_variance) * pn), den)>>

\* ------------------------------------------------------------------------
\* processor.py: helpers
\* ------------------------------------------------------------------------

\* bool(x)
Truthy(x) ==
    CASE x.t = "null" -> FALSE
      [] x.t = "bool" -> x.v
      [] x.t = "num" -> x.v # 0
      [] x.t = "str" -> x.v # ""
      [] x.t = "list" -> Len(x.v) > 0
      [] x.t = "map" -> DOMAIN x.v # {}
      [] OTHER -> TRUE

\* hash(x) raises TypeError for a list or a dict.
Unhashable(x) == x.t \in {"list", "map"}

_ensure_mapping(value) == IF value.t = "map" THEN value.v ELSE EmptyMap

_ensure_list(value) == IF value.t = "list" THEN value.v ELSE <<>>

_first_list_entry(value) ==
    LET entries == _ensure_list(value)
    IN IF Len(entries) > 0 /\ entries[1].t = "map" THEN entries[1].v ELSE EmptyMap

\* str(value) of a value that is not a string: its rendering.
_safe_str(value) ==
    IF IsNone(value) THEN None
    ELSE IF value.t \in {"str", "numstr"} THEN value
    ELSE IF value.t = "num" THEN NumStr(value.v)
    ELSE Str(ToString(value))

\* float(value) raises OverflowError (not caught) for an integer beyond the
\* range of a float.
AsFloatRaises(value) == value.t = "bigint"

_as_float(value) ==
    CASE value.t = "null" -> None
      [] value.t = "num" -> value
      [] value.t = "bool" -> Num(NumVal(value))
      [] value.t = "numstr" -> Num(value.v)
      [] OTHER -> None

_energy_value(value) == _as_float(value)

\* raw / divider on thousandths; the device readings make it exact.
_scaled_value(value, divider) ==
    LET raw == _as_float(value)
    IN IF IsNone(raw) THEN None ELSE Num(raw.v \div divider)

_energy_kwh(value) == _scaled_value(value, 1000)

_round_value(value, decimals) ==
    IF IsNone(value) THEN None
    ELSE IF decimals = 2 THEN Num(Round2(value.v)) ELSE value

\* sensors is the list _ensure_list made of ems["sensors"]; index counts from 0.
_sensor_by_index(sensors, index) ==
    LET entries == _ensure_list(List(sensors))
    IN IF index < Len(entries) THEN _ensure_mapping(entries[index + 1]) ELSE EmptyMap

\* ------------------------------------------------------------------------
\* processor.py: schedule selection
\* ------------------------------------------------------------------------
SCHEDULE_TYPE_LABELS ==
    [k \in {1, 2, 3, 4, 5} |->
        CASE k = 1 -> "charge" [] k = 2 -> "discharge" [] k = 3 -> "idle"
          [] k = 4 -> "grid_discharge" [] OTHER -> "grid_cycle"]

\* The lookup giving the label "unknown" to a type outside the table.
ScheduleLabel_default(key) ==
    IF IsNumber(key) /\ NumVal(key) % Milli = 0
          /\ (NumVal(key) \div Milli) \in DOMAIN SCHEDULE_TYPE_LABELS
    THEN Str(SCHEDULE_TYPE_LABELS[NumVal(key) \div Milli])
    ELSE Str("unknown")

\* SCHEDULE_TYPE_LABELS.get(key): 1.0 and True hash and compare like 1.
ScheduleLabel(key) ==
    IF IsNumber(key) /\ NumVal(key) % Milli = 0
          /\ (NumVal(key) \div Milli) \in DOMAIN SCHEDULE_TYPE_LABELS
    THEN Str(SCHEDULE_TYPE_LABELS[NumVal(key) \div Milli])
    ELSE None

\* The index (from 1) of the entry _select_schedule returns, 0 for None.
\* timestamp is in thousandths of a second.
RECURSIVE SelectIndex(_, _, _)
SelectIndex(entries, timestamp, i) ==
    IF i > Len(entries) THEN 0
    ELSE LET data == _ensure_mapping(entries[i])
             start == _as_float(Get(data, "from"))
             end == _as_float(Get(data, "to"))
         IN IF IsNone(start) \/ IsNone(end) THEN SelectIndex(entries, timestamp, i + 1)
            ELSE IF start.v <= timestamp /\ timestamp <= end.v THEN i
            ELSE SelectIndex(entries, timestamp, i + 1)

\* _select_schedule with the end of the window exclusive and the last
\* matching entry returned.
_select_schedule_exclusive(schedule_list, now) ==
    LET entries == _ensure_list(schedule_list)
        hits == {i \in 1..Len(entries) :
                    LET data == _ensure_mapping(entries[i])
                        start == _as_float(Get(data, "from"))
                        end == _as_float(Get(data, "to"))
                    IN ~IsNone(start) /\ ~IsNone(end)
                       /\ start.v <= now /\ now < end.v}
    IN IF hits = {} THEN None
       ELSE Map(_ensure_mapping(entries[CHOOSE i \in hits : \A j \in hits : j <= i]))

_select_schedule(schedule_list, now) ==
    LET entries == _ensure_list(schedule_list)
        k == SelectIndex(entries, now, 1)
    IN IF k = 0 THEN None ELSE Map(_ensure_mapping(entries[k]))

\* _select_schedule raises when float() overflows on the from or to of an
\* entry the loop reaches (the entries up to the one it returns).
SelectRaises(schedule_list, now) ==
    LET entries == _ensure_list(schedule_list)
        k == SelectIndex(entries, now, 1)
        last == IF k = 0 THEN Len(entries) ELSE k
    IN \E i \in 1..last :
          LET data == _ensure_mapping(entries[i])
          IN AsFloatRaises(Get(data, "from")) \/ AsFloatRaises(Get(data, "to"))

\* ------------------------------------------------------------------------
\* processor.py: error summary
\* ------------------------------------------------------------------------
\* The activity test taking every record that has a status for active.
ActiveStatus_any(status) == ~IsNone(status)

ActiveStatus(status) == status = Str("warning") \/ status = Str("error")

\* The subsystem name taken as str() of the raw field, null included.
SubsystemOf_str(entry) ==
    LET name == Get(entry, "sub_system_name")
    IN IF IsNone(name) THEN "None" ELSE _safe_str(name).v

SubsystemOf(entry) ==
    LET name == _safe_str(Get(entry, "sub_system_name"))
    IN IF Truthy(name) THEN name.v ELSE "unknown"

ActiveItem(entry) ==
    [sub_system_name |-> Str(SubsystemOf(entry)),
     error_name |-> Get(entry, "error_name"),
     activated |-> Get(entry, "activated"),
     message |-> Get(entry, "message"),
     details |-> List(_ensure_list(Get(entry, "details")))]

\* The loop of _inject_error_summary from item i on; acc holds the
\* accumulators warning_count, error_count, active_items and subsystems
\* (per name, the bucket's active_items).
RECURSIVE ErrorLoop(_, _, _)
ErrorLoop(error_report, i, acc) ==
    IF i > Len(error_report) THEN acc
    ELSE LET entry == _ensure_mapping(error_report[i])
             status == Get(entry, "activated")
         IN IF ~ActiveStatus(status) THEN ErrorLoop(error_report, i + 1, acc)
            ELSE LET subsystem == SubsystemOf(entry)
                     item == ActiveItem(entry)
                     bucket == IF subsystem \in DOMAIN acc.subsystems
                               THEN acc.subsystems[subsystem] ELSE <<>>
                 IN ErrorLoop(error_report, i + 1,
                      [warning_count |-> acc.warning_count
                                           + (IF status = Str("warning") THEN 1 ELSE 0),
                       error_count |-> acc.error_count
                                           + (IF status = Str("warning") THEN 0 ELSE 1),
                       active_items |-> Append(acc.active_items, item),
                       subsystems |->
                           [n \in DOMAIN acc.subsystems \cup {subsystem} |->
                               IF n = subsystem THEN Append(bucket, item)
                               ELSE acc.subsystems[n]]])

ErrorAccInit ==
    [warning_count |-> 0, error_count |-> 0, active_items |-> <<>>,
     subsystems |-> [n \in {} |-> <<>>]]

\* "status not in {...}" hashes status: a list or a dict raises TypeError.
ErrorSummaryRaises(error_report) ==
    \E i \in 1..Len(error_report) :
        Unhashable(Get(_ensure_mapping(error_report[i]), "activated"))

\* health_state with the warning test before the error test.
HealthState_warnfirst(has_report, warning_count, error_count) ==
    IF ~has_report THEN "unknown"
    ELSE IF warning_count # 0 THEN "warning"
    ELSE IF error_count # 0 THEN "error"
    ELSE "ok"

HealthState(has_report, warning_count, error_count) ==
    IF ~has_report THEN "unknown"
    ELSE IF error_count # 0 THEN "error"
    ELSE IF warning_count # 0 THEN "warning"
    ELSE "ok"

\* What _inject_error_summary puts into metrics and into attributes.errors.
_inject_error_summary(error_report, has_report) ==
    LET acc == ErrorLoop(error_report, 1, ErrorAccInit)
    IN [metrics |->
           [health_state |-> Str(HealthState(has_report, acc.warning_count, acc.error_count)),
            warning_count |-> IntJ(acc.warning_count),
            error_count |-> IntJ(acc.error_count),
            subsystem_status |->
                Map([n \in DOMAIN acc.subsystems |-> Bool(Len(acc.subsystems[n]) > 0)])],
        errors |->
           [warning_count |-> IntJ(acc.warning_count),
            error_count |-> IntJ(acc.error_count),
            active_items |-> List([k \in 1..Len(acc.active_items) |-> Map(acc.active_items[k])]),
            subsystems |->
                Map([n \in DOMAIN acc.subsystems |->
                       Map([active_items |->
                              List([k \in 1..Len(acc.subsystems[n]) |->
                                       Map(acc.subsystems[n][k])])])])]]

\* ------------------------------------------------------------------------
\* processor.py: summarize
\* ------------------------------------------------------------------------
\* A payload is [status, ems, schedule, error_report]; now is in seconds.

BatteryModule(module) ==
    LET module_data == _ensure_mapping(module)
    IN [soc |-> _scaled_value(Get(module_data, "soc"), 100),
        cycle_count |-> Get(module_data, "cycle_count"),
        energy_available |-> _round_value(_energy_kwh(Get(module_data, "energy_avail")), 2),
        temperature_min |-> _scaled_value(Get(module_data, "tmin"), 10),
        temperature_max |-> _scaled_value(Get(module_data, "tmax"), 10),
        state |-> Get(module_data, "state"),
        state_str |-> Get(module_data, "state_str"),
        alarm |-> Get(module_data, "alarm"),
        alarm_flags |-> List(_ensure_list(Get(module_data, "alarm_str")))]

BatteryModuleRaises(module) ==
    LET module_data == _ensure_mapping(module)
    IN \E k \in {"soc", "energy_avail", "tmin", "tmax"} : AsFloatRaises(Get(module_data, k))

_inject_power(sensor) ==
    [power |-> _as_float(Get(sensor, "total_power")),
     attributes |-> [phase |-> Get(sensor, "phase"),
                     energy_imported |-> _energy_value(Get(sensor, "energy_imported")),
                     energy_exported |-> _energy_value(Get(sensor, "energy_exported"))]]

SensorRaises(sensor) ==
    \E k \in {"total_power", "energy_imported", "energy_exported"} :
        AsFloatRaises(Get(sensor, k))

\* ems.get("aggregated", {}): the default only when the key is absent.
Aggregated(ems) == IF "aggregated" \in DOMAIN ems THEN ems["aggregated"] ELSE Map(EmptyMap)

\* a or b
Or(a, b) == IF Truthy(a) THEN a ELSE b

\* Whether summarize raises instead of returning: .get on an "aggregated"
\* that is no mapping, float() overflowing, hashing a list or a dict.
SummarizeRaises(payload, now) ==
    LET status == _ensure_mapping(payload.status)
        ems == _ensure_mapping(payload.ems)
        schedule == IF Truthy(payload.schedule) THEN _ensure_mapping(payload.schedule)
                    ELSE EmptyMap
        ems_block == _first_list_entry(Get(ems, "ems"))
        ems_data == _ensure_mapping(Get(ems_block, "ems_data"))
        ems_aggregate == _ensure_mapping(Get(ems_block, "ems_aggregate"))
        ems_voltage == _ensure_mapping(Get(ems_block, "ems_voltage"))
        bms == _ensure_list(Get(ems_block, "bms_data"))
        sensors == _ensure_list(Get(ems, "sensors"))
        active_schedule == _select_schedule(Get(schedule, "schedule"), now * Milli)
        raw_error_report == payload.error_report
        error_report == IF ~IsNone(raw_error_report) THEN _ensure_list(raw_error_report)
                        ELSE <<>>
    IN \/ ~Truthy(Get(ems_data, "state_str")) /\ Aggregated(ems).t # "map"
       \/ \E k \in {"soc_avg", "sys_temp", "power", "frequency"} :
             AsFloatRaises(Get(ems_data, k))
       \/ \E i \in 1..Len(bms) : BatteryModuleRaises(bms[i])
       \/ \E i \in 0..2 : SensorRaises(_sensor_by_index(sensors, i))
       \/ AsFloatRaises(Get(ems_aggregate, "imported_kwh"))
       \/ IsNone(_energy_value(Get(ems_aggregate, "imported_kwh")))
             /\ AsFloatRaises(Get(ems_data, "energy_consumed"))
       \/ AsFloatRaises(Get(ems_aggregate, "exported_kwh"))
       \/ IsNone(_energy_value(Get(ems_aggregate, "exported_kwh")))
             /\ AsFloatRaises(Get(ems_data, "energy_produced"))
       \/ \E k \in {"l1", "l2", "l3"} : AsFloatRaises(Get(ems_voltage, k))
       \/ SelectRaises(Get(schedule, "schedule"), now * Milli)
       \/ Truthy(active_schedule)
             /\ \/ Unhashable(Get(active_schedule.v, "type"))
                \/ AsFloatRaises(Get(_ensure_mapping(Get(active_schedule.v, "params")),
                                     "setpoint"))
       \/ ErrorSummaryRaises(error_report)

\* The metrics the schedule block sets: nothing without an active entry,
\* schedule_state only for a type the label table knows.
ScheduleMetrics(active_schedule) ==
    IF ~Truthy(active_schedule) THEN EmptyMap
    ELSE LET schedule_state == ScheduleLabel(Get(active_schedule.v, "type"))
             params == _ensure_mapping(Get(active_schedule.v, "params"))
             setpoint == _as_float(Get(params, "setpoint"))
             sp == [schedule_setpoint |-> IF ~IsNone(setpoint) THEN setpoint ELSE IntJ(0)]
         IN IF Truthy(schedule_state) THEN [schedule_state |-> schedule_state] @@ sp ELSE sp

ScheduleAttributes(schedule, active_schedule) ==
    IF ~Truthy(active_schedule) THEN [local_mode |-> Get(schedule, "local_mode")]
    ELSE [state |-> ScheduleLabel(Get(active_schedule.v, "type")),
          setpoint |-> Get(ScheduleMetrics(active_schedule), "schedule_setpoint"),
          from |-> Get(active_schedule.v, "from"),
          to |-> Get(active_schedule.v, "to"),
          local_mode |-> Get(schedule, "local_mode")]

\* The HomevoltCoordinatorData summarize returns when it does not raise.
SummarizeData(payload, now) ==
    LET status == _ensure_mapping(payload.status)
        ems == _ensure_mapping(payload.ems)
        schedule == IF Truthy(payload.schedule) THEN _ensure_mapping(payload.schedule)
                    ELSE EmptyMap
        ems_block == _first_list_entry(Get(ems, "ems"))
        ems_data == _ensure_mapping(Get(ems_block, "ems_data"))
        ems_aggregate == _ensure_mapping(Get(ems_block, "ems_aggregate"))
        ems_voltage == _ensure_mapping(Get(ems_block, "ems_voltage"))
        bms == _ensure_list(Get(ems_block, "bms_data"))
        battery_modules == [i \in 1..Len(bms) |-> Map(BatteryModule(bms[i]))]
        sensors == _ensure_list(Get(ems, "sensors"))
        grid == _inject_power(_sensor_by_index(sensors, 0))
        solar == _inject_power(_sensor_by_index(sensors, 1))
        load == _inject_power(_sensor_by_index(sensors, 2))
        imported == _energy_value(Get(ems_aggregate, "imported_kwh"))
        exported == _energy_value(Get(ems_aggregate, "exported_kwh"))
        active_schedule == _select_schedule(Get(schedule, "schedule"), now * Milli)
        raw_error_report == payload.error_report
        error_report == IF ~IsNone(raw_error_report) THEN _ensure_list(raw_error_report)
                        ELSE <<>>
        errs == _inject_error_summary(error_report, ~IsNone(raw_error_report))
    IN [metrics |->
          [system_state |->
               _safe_str(Or(Get(ems_data, "state_str"),
                            Get(_ensure_mapping(Aggregated(ems)), "state_str"))),
           wifi_status |-> _safe_str(Get(status, "wifi_status")),
           lte_status |-> _safe_str(Get(status, "lte_status")),
           battery_soc |-> _scaled_value(Get(ems_data, "soc_avg"), 100),
           battery_temperature |-> _scaled_value(Get(ems_data, "sys_temp"), 10),
           battery_power |-> _as_float(Get(ems_data, "power")),
           grid_power |-> grid.power,
           solar_power |-> solar.power,
           load_power |-> load.power,
           grid_energy_imported |-> grid.attributes.energy_imported,
           grid_energy_exported |-> grid.attributes.energy_exported,
           solar_energy_consumed |-> solar.attributes.energy_imported,
           solar_energy_produced |-> solar.attributes.energy_exported,
           battery_energy_imported |->
               IF IsNone(imported) THEN _energy_kwh(Get(ems_data, "energy_consumed"))
               ELSE imported,
           battery_energy_exported |->
               IF IsNone(exported) THEN _energy_kwh(Get(ems_data, "energy_produced"))
               ELSE exported,
           frequency |-> _scaled_value(Get(ems_data, "frequency"), 1000),
           voltage_l1 |-> _scaled_value(Get(ems_voltage, "l1"), 10),
           voltage_l2 |-> _scaled_value(Get(ems_voltage, "l2"), 10),
           voltage_l3 |-> _scaled_value(Get(ems_voltage, "l3"), 10)]
          @@ ScheduleMetrics(active_schedule)
          @@ errs.metrics,
        attributes |->
          [system |->
              [uptime |-> Get(status, "uptime"),
               wifi_status |-> Get(status, "wifi_status"),
               lte_status |-> Get(status, "lte_status"),
               mqtt_status |-> Get(status, "mqtt_status"),
               w868_status |-> Get(status, "w868_status"),
               ems_status |-> Get(status, "ems_status"),
               warnings |-> List(_ensure_list(Get(ems_data, "warning_str"))),
               info |-> List(_ensure_list(Get(ems_data, "info_str"))),
               error |-> Get(ems_block, "error_str")],
           battery |->
              [modules |-> List(battery_modules),
               warning_flags |-> List(_ensure_list(Get(ems_data, "warning_str"))),
               info_flags |-> List(_ensure_list(Get(ems_data, "info_str")))],
           grid |-> grid.attributes,
           solar |-> solar.attributes,
           load |-> load.attributes,
           schedule |-> ScheduleAttributes(schedule, active_schedule),
           errors |-> errs.errors]]

\* summarize: [ok |-> TRUE, data] when it returns, [ok |-> FALSE] when it raises.
summarize(payload, now) ==
    IF SummarizeRaises(payload, now) THEN [ok |-> FALSE]
    ELSE [ok |-> TRUE, data |-> SummarizeData(payload, now)]

\* ------------------------------------------------------------------------
\* coordinator.py and sensor.py
\* ------------------------------------------------------------------------
\* coordinator.data before the first refresh.
NoData == [ok |-> FALSE]

\* entry.options: full_capacity_soc_threshold, soh_baseline_strategy and
\* soh_baseline_kwh; module_index is the pack the module sensors track.
DEFAULT_SOH_BASELINE_STRATEGY == "auto"

\* data.attributes.get("battery", {}).get("modules", []) as a list of dicts.
ModulesOf(data) ==
    LET ms == data.data.attributes["battery"]["modules"].v
    IN [i \in 1..Len(ms) |-> ms[i].v]

\* _module_data falling back to the last module for an index beyond the list.
_module_data_clamp(data, module_index) ==
    IF ~data.ok THEN None
    ELSE LET modules == ModulesOf(data)
         IN IF module_index < Len(modules) THEN Map(modules[module_index + 1])
            ELSE IF Len(modules) > 0 THEN Map(modules[Len(modules)])
            ELSE None

\* _module_data: None without data or with the index beyond the list.
_module_data(data, module_index) ==
    IF ~data.ok THEN None
    ELSE LET modules == ModulesOf(data)
         IN IF module_index < Len(modules) THEN Map(modules[module_index + 1]) ELSE None

\* float(value) with TypeError and ValueError caught.
_safe_float(value) ==
    CASE value.t = "num" -> value
      [] value.t = "bool" -> Num(NumVal(value))
      [] value.t = "numstr" -> Num(value.v)
      [] OTHER -> None

\* HomevoltFullEnergyModuleSensor.native_value: the sensor's new state.
FullEnergyModule_native_value(self, data, options) ==
    LET module == _module_data(data, options.module_index)
    IN IF ~Truthy(module) THEN self
       ELSE LET r == sample_when_full(Get(module.v, "energy_available"),
                                      Get(module.v, "soc"),
                                      options.threshold, self.last_sample, self.was_full)
            IN [self EXCEPT !.last_sample = r[1], !.was_full = r[2]]

\* HomevoltFullEnergyTotalSensor.native_value
FullEnergyTotal_native_value(self, data, options) ==
    IF ~data.ok THEN self
    ELSE LET r == sample_total_when_full(ModulesOf(data), options.threshold,
                                         self.last_sample, self.was_full)
         IN [self EXCEPT !.last_sample = r[1], !.was_full = r[2]]

\* The estimator step with the baseline selected before the automatic
\* baseline has seen this tick's sample.
SohStep_stale(self, r, options, module_count) ==
    LET strategy == options.strategy
        manual_baseline == _safe_float(options.manual_baseline)
        auto_baseline == IF strategy = "auto"
                         THEN update_auto_max_baseline(r[1], self.auto_baseline)
                         ELSE self.auto_baseline
        baseline == select_baseline(strategy, manual_baseline, self.auto_baseline,
                                    module_count)
    IN [last_sample |-> r[1], was_full |-> r[2], auto_baseline |-> auto_baseline,
        baseline |-> baseline, last_soh |-> calculate_soh(r[1], baseline)]

\* The estimator step feeding the automatic baseline under every strategy.
SohStep_alwaysauto(self, r, options, module_count) ==
    LET strategy == options.strategy
        manual_baseline == _safe_float(options.manual_baseline)
        auto_baseline == update_auto_max_baseline(r[1], self.auto_baseline)
        baseline == select_baseline(strategy, manual_baseline, auto_baseline, module_count)
    IN [last_sample |-> r[1], was_full |-> r[2], auto_baseline |-> auto_baseline,
        baseline |-> baseline, last_soh |-> calculate_soh(r[1], baseline)]

\* The estimator step both SOH sensors share after sampling: r is the
\* sampler's result, module_count what select_baseline is given.
SohStep(self, r, options, module_count) ==
    LET strategy == options.strategy
        manual_baseline == _safe_float(options.manual_baseline)
        auto_baseline == IF strategy = "auto"
                         THEN update_auto_max_baseline(r[1], self.auto_baseline)
                         ELSE self.auto_baseline
        baseline == select_baseline(strategy, manual_baseline, auto_baseline, module_count)
    IN [last_sample |-> r[1], was_full |-> r[2], auto_baseline |-> auto_baseline,
        baseline |-> baseline, last_soh |-> calculate_soh(r[1], baseline)]

\* HomevoltSohModuleSensor.native_value
SohModule_native_value(self, data, options) ==
    LET module == _module_data(data, options.module_index)
    IN IF ~Truthy(module) THEN self
       ELSE SohStep(self,
                    sample_when_full(Get(module.v, "energy_available"), Get(module.v, "soc"),
                                     options.threshold, self.last_sample, self.was_full),
                    options, Len(ModulesOf(data)))

\* HomevoltSohTotalSensor.native_value
SohTotal_native_value(self, data, options) ==
    IF ~data.ok THEN self
    ELSE SohStep(self,
                 sample_total_when_full(ModulesOf(data), options.threshold,
                                        self.last_sample, self.was_full),
                 options, 0)

\* The entities as their constructors leave them.
NewSampler == [last_sample |-> None, was_full |-> FALSE]
NewSoh == [last_sample |-> None, was_full |-> FALSE, auto_baseline |-> None,
           baseline |-> None, last_soh |-> None]
NewEntities == [fe_module |-> NewSampler, fe_total |-> NewSampler,
                soh_module |-> NewSoh, soh_total |-> NewSoh]

\* The state string of a native value: "unknown" for None.
StateString(value) == IF IsNone(value) THEN Str("unknown") ELSE NumStr(NumVal(value))

\* The state and extra_state_attributes each entity publishes.
FullEnergyModule_state(self, data, options) ==
    LET module == _module_data(data, options.module_index)
        m == IF Truthy(module) THEN module.v ELSE EmptyMap
    IN [state |-> StateString(self.last_sample),
        attributes |-> [soc_threshold |-> Num(options.threshold),
                        current_soc |-> Get(m, "soc"),
                        current_energy_available |-> Get(m, "energy_available"),
                        sampled_energy_available |-> self.last_sample]]

FullEnergyTotal_state(self, data, options) ==
    [state |-> StateString(self.last_sample),
     attributes |-> [soc_threshold |-> Num(options.threshold),
                     module_count |-> IntJ(IF data.ok THEN Len(ModulesOf(data)) ELSE 0)]]

SohModule_state(self, data, options) ==
    LET module == _module_data(data, options.module_index)
        m == IF Truthy(module) THEN module.v ELSE EmptyMap
    IN [state |-> StateString(self.last_soh),
        attributes |->
            [baseline_strategy |-> Str(options.strategy),
             baseline_full_available_energy |-> self.baseline,
             last_sampled_full_available_energy |-> self.last_sample,
             soc_threshold |-> Num(options.threshold),
             current_soc |-> Get(m, "soc"),
             current_energy_available |-> Get(m, "energy_available")]
            @@ (IF options.strategy = "manual"
                THEN [manual_baseline_kwh |-> _safe_float(options.manual_baseline)]
                ELSE EmptyMap)]

SohTotal_state(self, data, options) ==
    [state |-> StateString(self.last_soh),
     attributes |->
         [baseline_strategy |-> Str(options.strategy),
          baseline_full_available_energy |-> self.baseline,
          last_sampled_full_available_energy |-> self.last_sample,
          soc_threshold |-> Num(options.threshold),
          module_count |-> IntJ(IF data.ok THEN Len(ModulesOf(data)) ELSE 0)]
         @@ (IF options.strategy = "manual"
             THEN [manual_baseline_kwh |-> _safe_float(options.manual_baseline)]
             ELSE EmptyMap)]

\* async_get_last_state() of an entity that was never written.
NoState == [state |-> None, attributes |-> EmptyMap, stored |-> FALSE]
Stored(rec) == [state |-> rec.state, attributes |-> rec.attributes, stored |-> TRUE]

\* float(value) raising past the except clause of _safe_float:
\* OverflowError for an integer beyond the range of a float.
SafeFloatRaises(value) == value.t = "bigint"

\* async_added_to_hass of an SOH sensor raising: the set membership test
\* hashes baseline_strategy, and float() may overflow.
Soh_restoreRaises(last_state) ==
    /\ last_state.stored
    /\ \/ SafeFloatRaises(last_state.state)
       \/ Unhashable(Get(last_state.attributes, "baseline_strategy"))
       \/ SafeFloatRaises(Get(last_state.attributes, "baseline_full_available_energy"))
       \/ SafeFloatRaises(Get(last_state.attributes, "last_sampled_full_available_energy"))

\* async_added_to_hass of the two full-energy sensors.
FullEnergy_restore(last_state) ==
    IF ~last_state.stored THEN NewSampler
    ELSE [NewSampler EXCEPT !.last_sample = _safe_float(last_state.state)]

\* async_added_to_hass of the two SOH sensors.
Soh_restore(last_state) ==
    IF ~last_state.stored THEN NewSoh
    ELSE LET strategy == Get(last_state.attributes, "baseline_strategy")
             baseline == _safe_float(Get(last_state.attributes,
                                         "baseline_full_available_energy"))
         IN [last_sample |-> _safe_float(Get(last_state.attributes,
                                             "last_sampled_full_available_energy")),
             was_full |-> FALSE,
             auto_baseline |-> IF strategy = Str("auto") \/ strategy = Str("auto_max")
                               THEN baseline ELSE None,
             baseline |-> baseline,
             last_soh |-> _safe_float(last_state.state)]

\* Every entity reading its native value against data.
ReadAll(entities, data, options) ==
    [fe_module |-> FullEnergyModule_native_value(entities.fe_module, data, options),
     fe_total |-> FullEnergyTotal_native_value(entities.fe_total, data, options),
     soh_module |-> SohModule_native_value(entities.soh_module, data, options),
     soh_total |-> SohTotal_native_value(entities.soh_total, data, options)]

\* The states written after a read.
WriteAll(entities, data, options) ==
    [fe_module |-> Stored(FullEnergyModule_state(entities.fe_module, data, options)),
     fe_total |-> Stored(FullEnergyTotal_state(entities.fe_total, data, options)),
     soh_module |-> Stored(SohModule_state(entities.soh_module, data, options)),
     soh_total |-> Stored(SohTotal_state(entities.soh_total, data, options))]

RestoreAll(store) ==
    [fe_module |-> FullEnergy_restore(store.fe_module),
     fe_total |-> FullEnergy_restore(store.fe_total),
     soh_module |-> Soh_restore(store.soh_module),
     soh_total |-> Soh_restore(store.soh_total)]

\* ------------------------------------------------------------------------
\* A run of sample_when_full ticks on one entity (SpecSampler)
\* ------------------------------------------------------------------------
\* sm.value, sm.was_full : the entity's stored sample and latch
\* sm.threshold          : the configured full threshold
\* sm.last, sm.last2     : the inputs of the last tick and of the one before
\* sm.changes            : how often the stored sample changed since the
\*                         last tick whose soc was non-null and below the
\*                         threshold (capped at MaxChanges)
\* tot : one call of sample_total_when_full, its arguments and its result
\* sz  : one call of summarize, its payload, its instant and its result
\* data     : coordinator.data, the published snapshot
\* entities : the state of the four sampling entities
\* store    : the last state written for each entity (what a restart restores)
\* options  : entry.options and the module index of the module sensors
\* phase    : "new" before the first setup, "added" once the entities are
\*            restored and added, "running" once their state was written
\* hist     : the last step taken (its operation and what qualifies it)
\* fx       : calls of one pure function: its arguments and its result
VARIABLES sm, tot, sz, data, entities, store, options, phase, hist, fx

vars == <<sm, tot, sz, data, entities, store, options, phase, hist, fx>>
sysvars == <<data, entities, store, options, phase, hist>>

SmIdle == [value |-> None, was_full |-> FALSE, threshold |-> 0,
           last |-> [valid |-> FALSE], last2 |-> [valid |-> FALSE], changes |-> 0]
SzIdle == [payload |-> [status |-> None, ems |-> None, schedule |-> None,
                        error_report |-> None],
           now |-> 0, done |-> FALSE, result |-> [ok |-> FALSE]]
NoOptions == [threshold |-> 0, strategy |-> "auto", manual_baseline |-> None,
              module_index |-> 0]
NoStore == [fe_module |-> NoState, fe_total |-> NoState,
            soh_module |-> NoState, soh_total |-> NoState]
NoHist == [op |-> "none"]
FxIdle == [fn |-> "none"]
SysIdle ==
    /\ data = NoData
    /\ entities = NewEntities
    /\ store = NoStore
    /\ options = NoOptions
    /\ phase = "idle"
    /\ hist = NoHist
TotIdle == [modules |-> <<>>, threshold |-> 0, prev |-> None, latch |-> FALSE,
            done |-> FALSE, result |-> <<None, FALSE>>]

SocReadings == {None, Num(50000), Num(98000), Num(99500), Num(99600)}
EnergyReadings == {None, Num(10000), Num(10500)}
StoredSamples == {None, Num(9000)}
Thresholds == {99000, 99500}

NoTick == [valid |-> FALSE]
TickOf(cur, soc, prev, latch) ==
    [valid |-> TRUE, current |-> cur, soc |-> soc, prev |-> prev, latch |-> latch]

SamplerInit ==
    /\ \E v \in StoredSamples, th \in Thresholds :
        sm = [value |-> v, was_full |-> FALSE, threshold |-> th,
              last |-> NoTick, last2 |-> NoTick, changes |-> 0]
    /\ tot = TotIdle
    /\ sz = SzIdle
    /\ fx = FxIdle
    /\ SysIdle

Min(a, b) == IF a < b THEN a ELSE b

SamplerTick(cur, soc) ==
    LET r == sample_when_full(cur, soc, sm.threshold, sm.value, sm.was_full)
        base == IF ~IsNone(soc) /\ ~is_full(soc, sm.threshold) THEN 0 ELSE sm.changes
    IN /\ UNCHANGED <<tot, sz, fx>>
       /\ UNCHANGED sysvars
       /\ sm' = [sm EXCEPT !.value = r[1], !.was_full = r[2],
                        !.last = TickOf(cur, soc, sm.value, sm.was_full),
                        !.last2 = sm.last,
                        !.changes = IF r[1] # sm.value
                                    THEN Min(base + 1, MaxChanges) ELSE base]

SamplerNext == \E cur \in EnergyReadings, soc \in SocReadings : SamplerTick(cur, soc)

SpecSampler == SamplerInit /\ [][SamplerNext]_vars

LastFull(tk) == tk.valid /\ ~IsNone(tk.soc) /\ NumVal(tk.soc) >= sm.threshold

\* C1: a tick with soc >= threshold and the latch already true leaves the
\* stored sample and the latch as they were, whatever the current value;
\* so the stored sample changes at most once between two consecutive ticks
\* whose soc is non-null and below the threshold.
C1_OncePerCycle ==
    /\ (LastFull(sm.last) /\ sm.last.latch)
          => (sm.value = sm.last.prev /\ sm.was_full = TRUE)
    /\ sm.changes <= 1

C1_Witness ==
    /\ LastFull(sm.last) /\ sm.last.latch
    /\ ~IsNone(sm.last.current) /\ sm.last.current # sm.last.prev
    /\ sm.changes = 1

UnusableFull(tk) == LastFull(tk) /\ ~tk.latch /\ IsNone(tk.current)

\* C2: a full reading with the latch false and no current value returns
\* (previous value, false); the next tick with soc >= threshold and a
\* current value stores that value and sets the latch.
C2_RetryAfterUnusableFull ==
    /\ UnusableFull(sm.last) => (sm.value = sm.last.prev /\ sm.was_full = FALSE)
    /\ (UnusableFull(sm.last2) /\ LastFull(sm.last) /\ ~IsNone(sm.last.current))
          => (sm.value = sm.last.current /\ sm.was_full = TRUE)

C2_Witness ==
    /\ UnusableFull(sm.last2) /\ LastFull(sm.last) /\ ~IsNone(sm.last.current)
    /\ sm.last.current # sm.last.prev

\* ------------------------------------------------------------------------
\* One call of sample_total_when_full (SpecTotal)
\* ------------------------------------------------------------------------
ModuleFullA == [soc |-> Num(99600), energy_available |-> Num(5550)]
ModuleFullB == [soc |-> Num(99700), energy_available |-> Num(5454)]
ModuleLow == [soc |-> Num(98000), energy_available |-> Num(5450)]
ModuleNoEnergy == [soc |-> Num(99700)]
ModuleNullSoc == [soc |-> None, energy_available |-> Num(5450)]
ModuleTextEnergy == [soc |-> Num(50000), energy_available |-> Str("n/a")]

TotalModules ==
    {ModuleFullA, ModuleFullB, ModuleLow, ModuleNoEnergy, ModuleNullSoc, ModuleTextEnergy}

RECURSIVE SeqsUpTo(_, _)
SeqsUpTo(S, n) ==
    IF n = 0 THEN {<<>>}
    ELSE LET shorter == SeqsUpTo(S, n - 1)
         IN shorter \cup {Append(q, x) : q \in {p \in shorter : Len(p) = n - 1}, x \in S}

TotalInit ==
    /\ sm = SmIdle
    /\ sz = SzIdle
    /\ fx = FxIdle
    /\ SysIdle
    /\ \E ms \in SeqsUpTo(TotalModules, MaxModules), th \in Thresholds,
          pv \in {None, Num(10000)}, lt \in BOOLEAN :
          tot = [modules |-> ms, threshold |-> th, prev |-> pv, latch |-> lt,
                 done |-> FALSE, result |-> <<None, FALSE>>]

TotalCall ==
    /\ ~tot.done
    /\ tot' = [tot EXCEPT !.done = TRUE,
                          !.result = sample_total_when_full(
                              tot.modules, tot.threshold, tot.prev, tot.latch)]
    /\ UNCHANGED <<sm, sz, fx>>
    /\ UNCHANGED sysvars

TotalNext == TotalCall

SpecTotal == TotalInit /\ [][TotalNext]_vars

AllNumeric(ms) == \A i \in 1..Len(ms) : ModuleNumeric(ms[i])
AllFull(ms, th) ==
    \A i \in 1..Len(ms) :
        LET soc == Get(ms[i], "soc") IN IsNumber(soc) /\ NumVal(soc) >= th
SomeBelow(ms, th) ==
    \E i \in 1..Len(ms) :
        LET soc == Get(ms[i], "soc") IN IsNumber(soc) /\ NumVal(soc) < th

\* C3: with an empty module list, or a module lacking a numeric soc or a
\* numeric energy_available, the result is (previous value, false) for
\* every prior latch.
C3_NotEvaluableResetsLatch ==
    (tot.done /\ (Len(tot.modules) = 0 \/ ~AllNumeric(tot.modules)))
        => tot.result = <<tot.prev, FALSE>>

\* C4: a new value is stored only when every module is full and the latch
\* is false, and it is then the rounded sum with the latch true; a module
\* below the threshold gives (previous value, false); all full with the
\* latch true gives (previous value, true).
C4_AllFullRule ==
    tot.done =>
        /\ (AllNumeric(tot.modules) /\ Len(tot.modules) > 0
              /\ AllFull(tot.modules, tot.threshold) /\ ~tot.latch)
             => tot.result = <<Num(Round2(SumEnergy(tot.modules))), TRUE>>
        /\ tot.result[1] # tot.prev
             => (AllFull(tot.modules, tot.threshold) /\ ~tot.latch)
        /\ SomeBelow(tot.modules, tot.threshold)
             => tot.result = <<tot.prev, FALSE>>
        /\ (Len(tot.modules) > 0 /\ AllFull(tot.modules, tot.threshold) /\ tot.latch)
             => tot.result = <<tot.prev, TRUE>>

\* With every module numeric the all-full rule of C4 holds.
AllFullRuleOnNumeric ==
    (tot.done /\ AllNumeric(tot.modules)) => C4_AllFullRule

\* ------------------------------------------------------------------------
\* One call of summarize (SpecSummarize)
\* ------------------------------------------------------------------------
Absent == [t |-> "absent"]
Opt(k, x) == IF x = Absent THEN EmptyMap ELSE (k :> x)

StatusFull ==
    Map([uptime |-> Str("1234s"), wifi_status |-> Map([signal |-> IntJ(-55)]),
         lte_status |-> Str("ok"), mqtt_status |-> Str("connected"),
         w868_status |-> Str("ok"), ems_status |-> Str("ok")])

Statuses == {Map(EmptyMap), StatusFull}

GridSensor == Map([total_power |-> IntJ(1000), energy_imported |-> Num(125500),
                   energy_exported |-> Num(5200), phase |-> Map([l1 |-> IntJ(400)])])
SolarSensor == Map([total_power |-> IntJ(2500), energy_imported |-> Num(12400),
                    energy_exported |-> Num(210700)])
LoadSensor == Map([total_power |-> IntJ(-1500), energy_imported |-> NumStr(100 * Milli)])

BmsPack(soc, energy_avail) ==
    Map(Opt("soc", soc) @@ Opt("energy_avail", energy_avail)
        @@ [cycle_count |-> IntJ(14), tmin |-> IntJ(215), tmax |-> IntJ(238)])

\* An ems document: the state strings, soc_avg and the packs are varied.
Ems(state_str, aggregated, soc_avg, packs) ==
    Map([ems |-> List(<<Map(
             [ems_data |-> Map(Opt("state_str", state_str) @@ Opt("soc_avg", soc_avg)
                               @@ [sys_temp |-> IntJ(225), power |-> IntJ(-1800),
                                   frequency |-> IntJ(50038),
                                   energy_produced |-> IntJ(48691),
                                   energy_consumed |-> IntJ(45022),
                                   warning_str |-> List(<<Str("temp_high")>>)]),
              ems_voltage |-> Map([l1 |-> IntJ(2315), l2 |-> IntJ(2320), l3 |-> IntJ(2305)]),
              ems_aggregate |-> Map([imported_kwh |-> Num(38300)]),
              bms_data |-> List(packs),
              error_str |-> Str("none")])>>),
         sensors |-> List(<<GridSensor, SolarSensor, LoadSensor>>)]
        @@ Opt("aggregated", aggregated))

TwoPacks == <<BmsPack(IntJ(7200), IntJ(5554)), BmsPack(IntJ(9950), IntJ(5450))>>

EmsFull == Ems(Str("charging"), Map([state_str |-> Str("idle")]), IntJ(7345), TwoPacks)

EmsBlobs ==
    {Map(EmptyMap),
     Map([ems |-> Str("offline"), sensors |-> Map(EmptyMap)]),
     Ems(Str("charging"), Absent, BigInt, TwoPacks)}
    \cup {Ems(st, ag, IntJ(7345), TwoPacks) :
            st \in {Absent, Str(""), Str("charging")},
            ag \in {Absent, None, List(<<>>), Map([state_str |-> Str("idle")])}}

\* Schedule entries: [0,100] charge 3500 W; [50,150] idle without setpoint,
\* overlapping the first; an unknown type; an unparseable from; a list as type.
EntryCharge == Map([from |-> IntJ(0), to |-> IntJ(100), type |-> IntJ(1),
                    params |-> Map([setpoint |-> IntJ(3500)])])
EntryIdle == Map([from |-> IntJ(50), to |-> NumStr(100 * Milli), type |-> IntJ(3)])
EntryUnknown == Map([from |-> IntJ(0), to |-> IntJ(100), type |-> IntJ(9),
                     params |-> List(<<>>)])
EntryBadFrom == Map([from |-> List(<<>>), to |-> IntJ(100), type |-> IntJ(2)])
EntryListType == Map([from |-> IntJ(100), to |-> IntJ(200), type |-> List(<<IntJ(1)>>)])

ScheduleEntries == {EntryCharge, EntryIdle, EntryUnknown, EntryBadFrom, EntryListType}

ScheduleOf(entries) == Map([local_mode |-> Str("auto"), schedule |-> List(entries)])

BaseSchedule == ScheduleOf(<<EntryCharge>>)

CoreSchedules == {None, Map(EmptyMap), BaseSchedule}

Schedules ==
    CoreSchedules
    \cup {List(<<EntryCharge>>), Map([local_mode |-> Str("manual"), schedule |-> None])}
    \cup {ScheduleOf(es) : es \in SeqsUpTo(ScheduleEntries, MaxEntries)}

\* Error records: an EMS warning, a connectivity error, an inactive EMS
\* record, a warning without subsystem name, a record whose activated is a
\* list, and an item that is no mapping.
RecWarning == Map([sub_system_name |-> Str("EMS"), error_name |-> Str("over_temp"),
                   activated |-> Str("warning"), message |-> Str("Temperature high"),
                   details |-> List(<<Str("pack1")>>)])
RecError == Map([sub_system_name |-> Str("CONNECTIVITY"), error_name |-> Str("link_down"),
                 activated |-> Str("error"), message |-> Str("LTE offline"),
                 details |-> List(<<>>)])
RecInactive == Map([sub_system_name |-> Str("EMS"), error_name |-> Str("ok_state"),
                    activated |-> Str("ok"), message |-> Str("all good")])
RecNoName == Map([sub_system_name |-> None, error_name |-> Str("fan"),
                  activated |-> Str("warning")])
RecListActivated == Map([sub_system_name |-> Str("EMS"), error_name |-> Str("odd"),
                         activated |-> List(<<Str("error")>>)])
RecNoMapping == Str("error")

ErrorRecords == {RecWarning, RecError, RecInactive, RecNoName, RecListActivated, RecNoMapping}

BaseReport == List(<<RecWarning, RecError, RecInactive>>)

CoreReports == {None, List(<<>>), BaseReport}

Reports ==
    CoreReports \cup {Map(EmptyMap)}
    \cup {List(rs) : rs \in SeqsUpTo(ErrorRecords, MaxRecords)}

Payload(st, e, sc, r) == [status |-> st, ems |-> e, schedule |-> sc, error_report |-> r]

\* Every ems document with the core schedules and reports; every schedule
\* and every report with a full and with an empty ems document.
SummarizePayloads ==
    {Payload(st, e, sc, r) : st \in Statuses, e \in EmsBlobs,
                             sc \in CoreSchedules, r \in CoreReports}
    \cup {Payload(StatusFull, e, sc, BaseReport) :
            e \in {EmsFull, Map(EmptyMap)}, sc \in Schedules}
    \cup {Payload(StatusFull, e, BaseSchedule, r) :
            e \in {EmsFull, Map(EmptyMap)}, r \in Reports}

Instants == {25, 75, 100, 180}

SummarizeInit ==
    /\ sm = SmIdle
    /\ tot = TotIdle
    /\ fx = FxIdle
    /\ SysIdle
    /\ \E p \in SummarizePayloads, now \in Instants :
          sz = [payload |-> p, now |-> now, done |-> FALSE, result |-> [ok |-> FALSE]]

SummarizeCall ==
    /\ ~sz.done
    /\ sz' = [sz EXCEPT !.done = TRUE, !.result = summarize(sz.payload, sz.now)]
    /\ UNCHANGED <<sm, tot, fx>>
    /\ UNCHANGED sysvars

SummarizeNext == SummarizeCall

SpecSummarize == SummarizeInit /\ [][SummarizeNext]_vars

DeclaredMetricKeys ==
    {"system_state", "wifi_status", "lte_status", "battery_soc", "battery_temperature",
     "battery_power", "grid_power", "solar_power", "load_power",
     "grid_energy_imported", "grid_energy_exported", "solar_energy_consumed",
     "solar_energy_produced", "battery_energy_imported", "battery_energy_exported",
     "frequency", "voltage_l1", "voltage_l2", "voltage_l3",
     "schedule_state", "schedule_setpoint",
     "health_state", "warning_count", "error_count", "subsystem_status"}

AttributeCategories == {"system", "battery", "grid", "solar", "load", "schedule", "errors"}

Returned == sz.done /\ sz.result.ok

\* C7: every declared metric key is present in the metrics summarize
\* returns, for every payload, and the seven attribute categories are present.
C7_AllMetricKeysPresent ==
    Returned =>
        /\ DeclaredMetricKeys \subseteq DOMAIN sz.result.data.metrics
        /\ AttributeCategories \subseteq DOMAIN sz.result.data.attributes

\* C8: summarize returns a snapshot for every payload and never raises.
C8_SummarizeTotal == sz.done => sz.result.ok

C8_Witness == sz.done /\ sz.result.ok /\ sz.payload.ems # Map(EmptyMap)

\* The records of a raw error report and the activated value of one.
RecordsOf(raw) == IF raw.t = "list" THEN raw.v ELSE <<>>
ActivatedOf(rec) ==
    IF rec.t = "map" /\ "activated" \in DOMAIN rec.v THEN rec.v["activated"] ELSE None
IsWarning(rec) == ActivatedOf(rec) = Str("warning")
IsError(rec) == ActivatedOf(rec) = Str("error")
IsActive(rec) == IsWarning(rec) \/ IsError(rec)

\* C9: health_state is "unknown" exactly when the raw error_report is
\* null; otherwise "error" with a record activated = error, else "warning"
\* with a record activated = warning, else "ok".
C9_HealthClassification ==
    Returned =>
        LET recs == RecordsOf(sz.payload.error_report)
            expected ==
                IF IsNone(sz.payload.error_report) THEN "unknown"
                ELSE IF \E i \in 1..Len(recs) : IsError(recs[i]) THEN "error"
                ELSE IF \E i \in 1..Len(recs) : IsWarning(recs[i]) THEN "warning"
                ELSE "ok"
        IN sz.result.data.metrics["health_state"] = Str(expected)

C9_Witness ==
    /\ Returned
    /\ LET recs == RecordsOf(sz.payload.error_report)
       IN /\ \E i \in 1..Len(recs) : IsError(recs[i])
          /\ \E i \in 1..Len(recs) : IsWarning(recs[i])
    /\ sz.result.data.metrics["health_state"] = Str("error")

\* C10: warning_count and error_count count the records activated =
\* warning and = error; active_items holds those records in input order;
\* a record with any other activated value is in no counter, no
\* active_items entry and no subsystem bucket.
C10_OnlyActiveRecordsCount ==
    Returned =>
        LET recs == RecordsOf(sz.payload.error_report)
            active == SelectSeq(recs, IsActive)
            m == sz.result.data.metrics
            e == sz.result.data.attributes["errors"]
            items == e["active_items"].v
            buckets == e["subsystems"].v
        IN /\ m["warning_count"] = IntJ(Cardinality({i \in 1..Len(recs) : IsWarning(recs[i])}))
           /\ m["error_count"] = IntJ(Cardinality({i \in 1..Len(recs) : IsError(recs[i])}))
           /\ e["warning_count"] = m["warning_count"]
           /\ e["error_count"] = m["error_count"]
           /\ Len(items) = Len(active)
           /\ \A k \in 1..Len(items) :
                 /\ items[k].v["error_name"] = Get(active[k].v, "error_name")
                 /\ items[k].v["activated"] = ActivatedOf(active[k])
                 /\ items[k].v["message"] = Get(active[k].v, "message")
           /\ \A n \in DOMAIN buckets :
                 \A k \in 1..Len(buckets[n].v["active_items"].v) :
                     \E j \in 1..Len(items) : buckets[n].v["active_items"].v[k] = items[j]
           /\ DOMAIN m["subsystem_status"].v = DOMAIN buckets

C10_Witness ==
    /\ Returned
    /\ LET recs == RecordsOf(sz.payload.error_report)
       IN /\ \E i \in 1..Len(recs) : ~IsActive(recs[i]) /\ ~IsNone(ActivatedOf(recs[i]))
          /\ \E i \in 1..Len(recs) : IsWarning(recs[i])
          /\ \E i \in 1..Len(recs) : IsError(recs[i])
    /\ Len(sz.result.data.attributes["errors"]["active_items"].v) = 2

\* ------------------------------------------------------------------------
\* The integration: setup, refresh ticks, failed ticks, restarts (Spec)
\* ------------------------------------------------------------------------
\* Packs as the device reports them: soc in hundredths of a percent,
\* energy_avail in Wh.  Two full packs with different energy, a pack below
\* the threshold, a full pack without energy_avail.
PackFullA == BmsPack(IntJ(9950), IntJ(5554))
PackFullB == BmsPack(IntJ(9960), IntJ(5446))
PackLow == BmsPack(IntJ(5000), IntJ(5554))
PackNoEnergy == BmsPack(IntJ(9950), Absent)

DevicePayload(packs) ==
    Payload(StatusFull, Ems(Str("charging"), Absent, IntJ(7345), packs),
            BaseSchedule, BaseReport)

\* The pack lists the device is driven with, those of at most MaxPacks packs.
PackLists ==
    {<<>>, <<PackFullA>>, <<PackFullB>>, <<PackLow>>, <<PackNoEnergy>>,
     <<PackFullA, PackFullB>>, <<PackFullA, PackLow>>,
     <<PackFullA, PackFullB, PackLow>>}

DevicePayloads == {DevicePayload(ps) : ps \in {l \in PackLists : Len(l) <= MaxPacks}}

\* A payload summarize raises on.
CrashPayload ==
    Payload(StatusFull, Ems(Absent, None, IntJ(7345), <<PackFullA>>), BaseSchedule, BaseReport)

OptionChoices ==
    {[threshold |-> 99000, strategy |-> st, manual_baseline |-> mb, module_index |-> ix] :
        st \in {DEFAULT_SOH_BASELINE_STRATEGY, "manual"},
        mb \in {None, Num(12000)},
        ix \in 0..(MaxPacks - 1)}

\* dt_util.utcnow(), the instant summarize is given.
Instant == 25

Init ==
    /\ sm = SmIdle
    /\ tot = TotIdle
    /\ sz = SzIdle
    /\ fx = FxIdle
    /\ data = NoData
    /\ entities = NewEntities
    /\ store = NoStore
    /\ options \in {o \in OptionChoices : o.strategy = "manual" \/ IsNone(o.manual_baseline)}
    /\ phase = "new"
    /\ hist = NoHist

PureUnchanged == UNCHANGED <<sm, tot, sz, fx>>

\* async_setup_entry and async_added_to_hass, at the first start and at
\* every restart: the first refresh succeeds (the entry is not set up
\* otherwise), the entities are created for the packs of that snapshot and
\* each restores its last written state.
SetupEntry(payload) ==
    /\ phase \in {"new", "running"}
    /\ data' = summarize(payload, Instant)
    /\ data'.ok
    /\ options.module_index < Len(ModulesOf(data'))
    /\ entities' = RestoreAll(store)
    /\ phase' = "added"
    /\ hist' = [op |-> "setup", restart |-> (phase = "running")]
    /\ UNCHANGED <<store, options>>
    /\ PureUnchanged

\* The entities' state is written: each reads its native value, then its
\* attributes are stored.
WriteState ==
    /\ phase \in {"added", "running"}
    /\ entities' = ReadAll(entities, data, options)
    /\ store' = WriteAll(entities', data, options)
    /\ phase' = "running"
    /\ hist' = [op |-> "write"]
    /\ UNCHANGED <<data, options>>
    /\ PureUnchanged

\* _async_update_data returning: the snapshot is published and every
\* entity's state is written.
Refresh(payload) ==
    /\ phase = "running"
    /\ data' = summarize(payload, Instant)
    /\ data'.ok
    /\ entities' = ReadAll(entities, data', options)
    /\ store' = WriteAll(entities', data', options)
    /\ hist' = [op |-> "refresh"]
    /\ UNCHANGED <<options, phase>>
    /\ PureUnchanged

\* _async_update_data with the fetch failing but the error swallowed and an
\* empty payload summarized in its place.
RefreshFails_swallow(kind) ==
    /\ phase = "running"
    /\ data' = summarize(Payload(Map(EmptyMap), Map(EmptyMap), None, None), Instant)
    /\ entities' = ReadAll(entities, data', options)
    /\ hist' = [op |-> "update_failed", kind |-> kind, summarized |-> TRUE]
    /\ UNCHANGED <<store, options, phase>>
    /\ PureUnchanged

\* _async_update_data raising UpdateFailed on an auth or a connection
\* error: summarize is not called, coordinator.data stays, and the
\* entities are read again against it.
RefreshFails(kind) ==
    /\ phase = "running"
    /\ data' = data
    /\ entities' = ReadAll(entities, data, options)
    /\ hist' = [op |-> "update_failed", kind |-> kind, summarized |-> FALSE]
    /\ UNCHANGED <<store, options, phase>>
    /\ PureUnchanged

\* _async_update_data with summarize raising: the refresh fails the same way.
RefreshCrashes(payload) ==
    /\ phase = "running"
    /\ ~summarize(payload, Instant).ok
    /\ entities' = ReadAll(entities, data, options)
    /\ hist' = [op |-> "crashed"]
    /\ UNCHANGED <<data, store, options, phase>>
    /\ PureUnchanged

Next ==
    \/ \E p \in DevicePayloads : SetupEntry(p)
    \/ WriteState
    \/ \E p \in DevicePayloads : Refresh(p)
    \/ \E kind \in {"auth", "connection"} : RefreshFails(kind)
    \/ RefreshCrashes(CrashPayload)

Spec == Init /\ [][Next]_vars

\* The entities and the fields of their samplers and estimators.
SamplerEntities == {"fe_module", "fe_total", "soh_module", "soh_total"}
EstimatorEntities == {"soh_module", "soh_total"}

\* A restart: the step in which a running entry is set up again.
IsRestart == hist'.op = "setup" /\ hist'.restart

\* C5: persisted state round-trips across a restart: every sampler and
\* estimator restored at a restart has the last_sample and the was_full it
\* had before the restart, and every estimator the baseline and the
\* auto_baseline it had.
C5_RestartRoundTrip ==
    [][IsRestart =>
          /\ \A e \in SamplerEntities :
                /\ entities'[e].last_sample = entities[e].last_sample
                /\ entities'[e].was_full = entities[e].was_full
          /\ \A e \in EstimatorEntities :
                /\ entities'[e].baseline = entities[e].baseline
                /\ entities'[e].auto_baseline = entities[e].auto_baseline]_vars

\* A failed tick: the step _async_update_data ends with UpdateFailed on an
\* auth or a connection error.
IsFailedTick == hist'.op = "update_failed"

\* C6: a failed fetch leaves estimator state untouched: on an auth or a
\* connection error summarize is not called, the published snapshot is
\* kept, and every entity's last_sample, was_full, auto_baseline, baseline
\* and last_soh are after the tick, the re-read against the stale snapshot
\* included, what they were before it.
C6_FailedFetchKeepsState ==
    [][IsFailedTick =>
          /\ ~hist'.summarized
          /\ data' = data
          /\ entities' = entities]_vars

\* A failed tick on entities that hold a sample behind a set latch and a
\* computed state of health.
C6_Witness ==
    /\ hist.op = "update_failed"
    /\ entities.soh_module.was_full
    /\ entities.soh_total.was_full
    /\ ~IsNone(entities.fe_module.last_sample)
    /\ ~IsNone(entities.soh_module.last_soh)
    /\ ~IsNone(entities.soh_module.auto_baseline)

\* ------------------------------------------------------------------------
\* Calls of one pure function (fx)
\* ------------------------------------------------------------------------
\* Everything but fx is idle in these specifications and stays so.
OthersIdle == sm = SmIdle /\ tot = TotIdle /\ sz = SzIdle /\ SysIdle
FxFrame == UNCHANGED <<sm, tot, sz>> /\ UNCHANGED sysvars

\* ------------------------------------------------------------------------
\* One call of _select_schedule (SpecSelect)
\* ------------------------------------------------------------------------
\* Further entries: one without to, one whose from is beyond the range of
\* a float, and an item that is no mapping.
EntryNoTo == Map([from |-> IntJ(0), type |-> IntJ(1)])
EntryHugeFrom == Map([from |-> BigInt, to |-> IntJ(200), type |-> IntJ(1)])
EntryNoMapping == Str("charge")

SelectEntries == ScheduleEntries \cup {EntryNoTo, EntryHugeFrom, EntryNoMapping}

ScheduleLists ==
    {None, Str("none"), Map(EmptyMap)}
    \cup {List(es) : es \in SeqsUpTo(SelectEntries, MaxEntries)}

SelectInit ==
    /\ OthersIdle
    /\ \E sl \in ScheduleLists, now \in Instants :
          fx = [fn |-> "_select_schedule", schedule_list |-> sl, now |-> now * Milli,
                done |-> FALSE, raised |-> FALSE, result |-> None]

SelectCall ==
    /\ fx.fn = "_select_schedule"
    /\ ~fx.done
    /\ fx' = [fx EXCEPT !.done = TRUE,
                        !.raised = SelectRaises(fx.schedule_list, fx.now),
                        !.result = IF SelectRaises(fx.schedule_list, fx.now) THEN None
                                   ELSE _select_schedule(fx.schedule_list, fx.now)]
    /\ FxFrame

SelectNext == SelectCall

SpecSelect == SelectInit /\ [][SelectNext]_vars

\* A bound that parses as a number, and an entry whose window holds now.
ParsesAsNumber(x) == x.t \in {"num", "bool", "numstr"}
BoundValue(x) == IF x.t = "bool" THEN (IF x.v THEN Milli ELSE 0) ELSE x.v
InWindow(entry, now) ==
    /\ entry.t = "map"
    /\ "from" \in DOMAIN entry.v /\ "to" \in DOMAIN entry.v
    /\ ParsesAsNumber(entry.v["from"]) /\ ParsesAsNumber(entry.v["to"])
    /\ BoundValue(entry.v["from"]) <= now /\ now <= BoundValue(entry.v["to"])
ListedEntries(sl) == IF sl.t = "list" THEN sl.v ELSE <<>>
SelectReturned == fx.fn = "_select_schedule" /\ fx.done /\ ~fx.raised

\* C11: _select_schedule returns the earliest-listed entry whose from and
\* to parse as numbers with from <= now <= to, both bounds inclusive, and
\* null when no entry matches or the list is empty or malformed.
C11_FirstMatchInclusive ==
    SelectReturned =>
        LET es == ListedEntries(fx.schedule_list)
            hits == {i \in 1..Len(es) : InWindow(es[i], fx.now)}
        IN IF hits = {} THEN fx.result = None
           ELSE fx.result = es[CHOOSE i \in hits : \A j \in hits : i <= j]

\* Two overlapping windows both hold now, now is the inclusive end of the
\* first, and the first is returned.
C11_Witness ==
    /\ SelectReturned
    /\ LET es == ListedEntries(fx.schedule_list)
       IN /\ Len(es) = 2
          /\ InWindow(es[1], fx.now) /\ InWindow(es[2], fx.now)
          /\ es[1] # es[2]
          /\ BoundValue(es[1].v["to"]) = fx.now
          /\ fx.result = es[1]

\* ------------------------------------------------------------------------
\* The schedule metrics of one call of summarize (SpecSummarize)
\* ------------------------------------------------------------------------
\* The entries of the payload's schedule and the one active at sz.now.
PayloadEntries ==
    LET sc == sz.payload.schedule
    IN IF sc.t = "map" /\ "schedule" \in DOMAIN sc.v THEN ListedEntries(sc.v["schedule"])
       ELSE <<>>
ActiveHits == {i \in 1..Len(PayloadEntries) : InWindow(PayloadEntries[i], sz.now * Milli)}
ActiveEntry == PayloadEntries[CHOOSE i \in ActiveHits : \A j \in ActiveHits : i <= j].v

\* The label table of the specification.
TypeLabel(ty) ==
    CASE ty = IntJ(1) -> "charge"
      [] ty = IntJ(2) -> "discharge"
      [] ty = IntJ(3) -> "idle"
      [] ty = IntJ(4) -> "grid_discharge"
      [] ty = IntJ(5) -> "grid_cycle"
      [] OTHER -> "none"

\* params.setpoint of an entry when it is a number, else 0.
SetpointOf(entry) ==
    LET params == Get(entry, "params")
        sp == IF params.t = "map" THEN Get(params.v, "setpoint") ELSE None
    IN IF ParsesAsNumber(sp) THEN Num(BoundValue(sp)) ELSE IntJ(0)

\* C12: with an entry active, schedule_state is the label of its type; a
\* type outside the table leaves schedule_state out of the metrics, and
\* schedule_setpoint is set all the same, 0 without params.setpoint.
C12_ScheduleStateMapping ==
    (Returned /\ ActiveHits # {}) =>
        LET m == sz.result.data.metrics
            label == TypeLabel(Get(ActiveEntry, "type"))
        IN /\ label # "none" => Get(m, "schedule_state") = Str(label)
           /\ label = "none" => "schedule_state" \notin DOMAIN m
           /\ "schedule_setpoint" \in DOMAIN m
           /\ m["schedule_setpoint"] = SetpointOf(ActiveEntry)

\* An active entry of unknown type without setpoint.
C12_Witness ==
    /\ Returned /\ ActiveHits # {}
    /\ Get(ActiveEntry, "type") = IntJ(9)
    /\ "schedule_state" \notin DOMAIN sz.result.data.metrics
    /\ sz.result.data.metrics["schedule_setpoint"] = IntJ(0)


\* ------------------------------------------------------------------------
\* The estimator procedure of one tick (Spec)
\* ------------------------------------------------------------------------
\* A tick: the entities read their native value against the snapshot.
IsTick == hist'.op \in {"write", "refresh", "update_failed", "crashed"}

\* What the estimator procedure leaves in an SOH entity: sample the sampler's
\* output of this tick, auto_baseline fed with it under "auto" and kept
\* otherwise, baseline selected from the updated auto_baseline, and the
\* state of health computed from the two.
EstimatorConsistent(before, after, r, module_count) ==
    /\ after.last_sample = r[1]
    /\ after.was_full = r[2]
    /\ after.auto_baseline = IF options.strategy = "auto"
                             THEN update_auto_max_baseline(after.last_sample,
                                                           before.auto_baseline)
                             ELSE before.auto_baseline
    /\ after.baseline = select_baseline(options.strategy,
                                        _safe_float(options.manual_baseline),
                                        after.auto_baseline, module_count)
    /\ after.last_soh = calculate_soh(after.last_sample, after.baseline)

\* The snapshot holds the pack the module sensors track.
ModulePresent == data'.ok /\ Truthy(_module_data(data', options.module_index))

\* C13: per-tick estimator consistency: after every SOH sensor tick with
\* snapshot data for the tracked entity present, last_sample is the sampler
\* output of that tick, under strategy "auto" auto_baseline has first been
\* updated with it, baseline is select_baseline(strategy, manual baseline,
\* auto_baseline, module count) (the module sensor passes the number of
\* modules, the total sensor none) and last_soh is
\* calculate_soh(last_sample, baseline).
C13_EstimatorConsistency ==
    [][IsTick =>
          /\ ModulePresent =>
                LET module == _module_data(data', options.module_index).v
                IN EstimatorConsistent(
                       entities.soh_module, entities'.soh_module,
                       sample_when_full(Get(module, "energy_available"),
                                        Get(module, "soc"), options.threshold,
                                        entities.soh_module.last_sample,
                                        entities.soh_module.was_full),
                       Len(ModulesOf(data')))
          /\ data'.ok =>
                EstimatorConsistent(
                    entities.soh_total, entities'.soh_total,
                    sample_total_when_full(ModulesOf(data'), options.threshold,
                                           entities.soh_total.last_sample,
                                           entities.soh_total.was_full),
                    0)]_vars

\* A tick under "auto" that has raised the module sensor's automatic
\* baseline to a fresh sample and computed a state of health from it.
C13_Witness ==
    /\ hist.op = "refresh"
    /\ data.ok
    /\ options.strategy = "auto"
    /\ entities.soh_module.was_full
    /\ ~IsNone(entities.soh_module.auto_baseline)
    /\ entities.soh_module.baseline = entities.soh_module.auto_baseline
    /\ ~IsNone(entities.soh_module.last_soh)
    /\ ~IsNone(entities.soh_total.last_soh)


\* ------------------------------------------------------------------------
\* A run of update_auto_max_baseline ticks on one estimator (SpecBaseline)
\* ------------------------------------------------------------------------
\* fx.fed      : the samples fed so far, oldest first
\* fx.previous : the baseline before the last call
\* fx.baseline : the estimator's auto_baseline, None as constructed
FedSamples == {None, Num(0), Num(0 - 1000), Num(9500), Num(10000), Num(10500)}

BaselineInit ==
    /\ fx = [fn |-> "update_auto_max_baseline", fed |-> <<>>,
             previous |-> None, baseline |-> None]
    /\ OthersIdle

BaselineTick(sample) ==
    /\ fx.fn = "update_auto_max_baseline"
    /\ Len(fx.fed) < MaxTicks
    /\ fx' = [fx EXCEPT !.fed = Append(@, sample),
                        !.previous = fx.baseline,
                        !.baseline = update_auto_max_baseline(sample, fx.baseline)]
    /\ FxFrame

BaselineNext == \E sample \in FedSamples : BaselineTick(sample)

SpecBaseline == BaselineInit /\ [][BaselineNext]_vars

\* The positive samples among those fed, and the largest of a set.
PositiveFed(fed) ==
    {NumVal(fed[i]) : i \in {j \in DOMAIN fed : ~IsNone(fed[j]) /\ NumVal(fed[j]) > 0}}
Largest(S) == CHOOSE x \in S : \A y \in S : y <= x

\* C14: the auto baseline is a running maximum: update_auto_max_baseline
\* returns the previous baseline when the sample is null or <= 0, the
\* sample when the previous baseline is null, and otherwise the larger of
\* the two; over a sequence of ticks the baseline never decreases and is
\* the largest positive sample fed so far (null before the first one).
C14_AutoBaselineRunningMax ==
    (fx.fn = "update_auto_max_baseline" /\ Len(fx.fed) > 0) =>
        LET sample == fx.fed[Len(fx.fed)]
            positive == PositiveFed(fx.fed)
        IN /\ (IsNone(sample) \/ NumVal(sample) <= 0) => fx.baseline = fx.previous
           /\ (~IsNone(sample) /\ NumVal(sample) > 0 /\ IsNone(fx.previous)) =>
                  fx.baseline = Num(NumVal(sample))
           /\ (~IsNone(sample) /\ NumVal(sample) > 0 /\ ~IsNone(fx.previous)) =>
                  fx.baseline = Num(IF NumVal(sample) > NumVal(fx.previous)
                                    THEN NumVal(sample) ELSE NumVal(fx.previous))
           /\ ~IsNone(fx.previous) =>
                  ~IsNone(fx.baseline) /\ NumVal(fx.baseline) >= NumVal(fx.previous)
           /\ fx.baseline = IF positive = {} THEN None ELSE Num(Largest(positive))

\* A positive sample below the baseline fed after a larger one: the larger
\* one is kept.
C14_Witness ==
    /\ fx.fn = "update_auto_max_baseline"
    /\ Len(fx.fed) = MaxTicks
    /\ ~IsNone(fx.fed[Len(fx.fed)])
    /\ NumVal(fx.fed[Len(fx.fed)]) > 0
    /\ ~IsNone(fx.previous)
    /\ NumVal(fx.fed[Len(fx.fed)]) < NumVal(fx.previous)
    /\ fx.baseline = fx.previous


\* ------------------------------------------------------------------------
\* One call of select_baseline (SpecSelectBaseline)
\* ------------------------------------------------------------------------
\* fx.strategy, fx.manual_baseline, fx.auto_baseline, fx.module_count : the
\* arguments (module_count 0: not passed, or zero); fx.result once fx.done
Strategies == {"manual", "auto", "auto_max", "kalman"}
ManualBaselines == {None, Num(0), Num(0 - 12000), Num(6000), Num(12000)}
AutoBaselines == {None, Num(5550), Num(12000)}
ModuleCounts == 0..3

SelectBaselineInit ==
    /\ \E strategy \in Strategies, manual_baseline \in ManualBaselines,
          auto_baseline \in AutoBaselines, module_count \in ModuleCounts :
          fx = [fn |-> "select_baseline", strategy |-> strategy,
                manual_baseline |-> manual_baseline, auto_baseline |-> auto_baseline,
                module_count |-> module_count, done |-> FALSE, result |-> None]
    /\ OthersIdle

SelectBaselineCall ==
    /\ fx.fn = "select_baseline"
    /\ ~fx.done
    /\ fx' = [fx EXCEPT !.done = TRUE,
                        !.result = select_baseline(fx.strategy, fx.manual_baseline,
                                                   fx.auto_baseline, fx.module_count)]
    /\ FxFrame

SelectBaselineNext == SelectBaselineCall

SpecSelectBaseline == SelectBaselineInit /\ [][SelectBaselineNext]_vars

\* C15: baseline selection: under "manual" select_baseline returns null
\* for a null or non-positive manual baseline, the manual baseline divided
\* by module_count when one is passed and non-zero, and the manual baseline
\* itself otherwise; under every other strategy it returns auto_baseline,
\* whatever the manual baseline and module_count.
C15_BaselineSelection ==
    (fx.fn = "select_baseline" /\ fx.done) =>
        IF fx.strategy = "manual"
        THEN IF IsNone(fx.manual_baseline) \/ NumVal(fx.manual_baseline) <= 0
             THEN fx.result = None
             ELSE IF fx.module_count # 0
             THEN /\ fx.result.t = "num"
                  /\ fx.result.v * fx.module_count = NumVal(fx.manual_baseline)
             ELSE fx.result = fx.manual_baseline
        ELSE fx.result = fx.auto_baseline

\* A manual total of 12 kWh shared between two modules: 6 kWh each.
C15_Witness ==
    /\ fx.fn = "select_baseline"
    /\ fx.done
    /\ fx.strategy = "manual"
    /\ fx.manual_baseline = Num(12000)
    /\ fx.module_count = 2
    /\ fx.result = Num(6000)


\* ------------------------------------------------------------------------
\* One call of calculate_soh or of kalman_update (SpecEstimate)
\* ------------------------------------------------------------------------
\* fx.fn and the call's arguments; fx.result once fx.done
SohSamples == {None, Num(0 - 1000), Num(0), Num(1000), Num(5550), Num(9000), Num(10000)}
SohBaselines == {None, Num(0 - 10000), Num(0), Num(8000), Num(10000), Num(12000),
                 Num(16000)}
KalmanEstimates == {None, Num(12000)}
KalmanVariances == {None, Num(0), Num(40)}
ProcessVariances == {DEFAULT_KALMAN_PROCESS_VARIANCE, Ratio(0, 1)}
KalmanMeasurements == {None, Num(0), Num(11500), Num(12000)}
MeasurementVariances == {Num(0 - 1000), Num(0 - 40), Num(0), Num(40), Num(80)}

EstimateInit ==
    /\ \/ \E current_sample \in SohSamples, baseline \in SohBaselines :
             fx = [fn |-> "calculate_soh", current_sample |-> current_sample,
                   baseline |-> baseline, done |-> FALSE, result |-> None]
       \/ \E estimate \in KalmanEstimates, variance \in KalmanVariances,
             measurement \in KalmanMeasurements,
             measurement_variance \in MeasurementVariances,
             process_variance \in ProcessVariances :
             fx = [fn |-> "kalman_update", estimate |-> estimate, variance |-> variance,
                   measurement |-> measurement,
                   measurement_variance |-> measurement_variance,
                   process_variance |-> process_variance,
                   done |-> FALSE, result |-> <<None, None>>]
    /\ OthersIdle

CalculateSohCall ==
    /\ fx.fn = "calculate_soh"
    /\ ~fx.done
    /\ fx' = [fx EXCEPT !.done = TRUE,
                        !.result = calculate_soh(fx.current_sample, fx.baseline)]
    /\ FxFrame

KalmanUpdateCall ==
    /\ fx.fn = "kalman_update"
    /\ ~fx.done
    /\ fx' = [fx EXCEPT !.done = TRUE,
                        !.result = kalman_update(fx.estimate, fx.variance, fx.measurement,
                                                 fx.measurement_variance,
                                                 fx.process_variance)]
    /\ FxFrame

EstimateNext == CalculateSohCall \/ KalmanUpdateCall

SpecEstimate == EstimateInit /\ [][EstimateNext]_vars

Abs(x) == IF x < 0 THEN 0 - x ELSE x

\* C16: SOH computation: calculate_soh returns null when the sample or the
\* baseline is null, when the sample is negative or when the baseline is
\* <= 0; otherwise it returns sample / baseline * 100 rounded to one
\* decimal (a whole number of tenths within half a tenth of the quotient),
\* and 0.0, not null, for a sample of 0.
C16_SohComputation ==
    (fx.fn = "calculate_soh" /\ fx.done) =>
        LET s == fx.current_sample
            b == fx.baseline
        IN IF IsNone(s) \/ IsNone(b) THEN fx.result = None
           ELSE IF NumVal(s) < 0 \/ NumVal(b) <= 0 THEN fx.result = None
           ELSE /\ fx.result.t = "num"
                /\ fx.result.v % (Milli \div 10) = 0
                /\ 2 * Abs(fx.result.v * NumVal(b) - 100 * Milli * NumVal(s))
                       <= (Milli \div 10) * NumVal(b)
                /\ NumVal(s) = 0 => fx.result = Num(0)

\* An empty sample against a positive baseline: 0.0.
C16_Witness ==
    /\ fx.fn = "calculate_soh"
    /\ fx.done
    /\ fx.current_sample = Num(0)
    /\ fx.baseline = Num(10000)
    /\ fx.result = Num(0)


\* A kalman_update call without prior state that was given a measurement.
SeedingCall ==
    /\ fx.fn = "kalman_update"
    /\ fx.done
    /\ IsNone(fx.estimate) \/ IsNone(fx.variance)
    /\ ~IsNone(fx.measurement)

\* C20 as stated: Kalman seeding: a kalman_update call with no prior state
\* (estimate or variance null) and a non-null measurement returns exactly
\* (measurement, measurement_variance), for every measurement_variance.
C20_SeedingEveryVariance ==
    SeedingCall => fx.result = <<fx.measurement, fx.measurement_variance>>

\* C20 as amended: Kalman seeding: such a call returns exactly
\* (measurement, measurement_variance) for every measurement_variance that
\* is not negative, and (measurement, 0.0) for a negative one.
C20_SeedingNonNegativeVariance ==
    SeedingCall =>
        fx.result = <<fx.measurement,
                      IF NumVal(fx.measurement_variance) >= 0
                      THEN fx.measurement_variance ELSE Num(0)>>

\* The first measurement of an estimator, at the default measurement
\* variance 0.04: the state is seeded with both.
C20_Witness ==
    /\ SeedingCall
    /\ IsNone(fx.estimate)
    /\ IsNone(fx.variance)
    /\ fx.measurement = Num(12000)
    /\ fx.measurement_variance = Num(40)
    /\ fx.result = <<Num(12000), Num(40)>>


\* ------------------------------------------------------------------------
\* Readings that are not full (SpecSampler)
\* ------------------------------------------------------------------------
LastBelow(tk) == tk.valid /\ ~IsNone(tk.soc) /\ NumVal(tk.soc) < sm.threshold
LastNullSoc(tk) == tk.valid /\ IsNone(tk.soc)

\* C17: a not-full reading resets only the latch: a tick with a non-null
\* soc below the threshold leaves the stored sample as it was and the latch
\* false, whatever the prior latch and the current value; a stored sample
\* is never cleared by it.
C17_NotFullResetsOnlyLatch ==
    LastBelow(sm.last) =>
        /\ sm.value = sm.last.prev
        /\ sm.was_full = FALSE
        /\ ~IsNone(sm.last.prev) => ~IsNone(sm.value)

\* A reading below the threshold on a latched entity that holds a sample,
\* with another value current.
C17_Witness ==
    /\ LastBelow(sm.last)
    /\ sm.last.latch
    /\ ~IsNone(sm.last.prev)
    /\ ~IsNone(sm.last.current)
    /\ sm.last.current # sm.last.prev
    /\ sm.value = sm.last.prev
    /\ ~sm.was_full

\* C18: a null soc carries no information: a tick with soc null leaves the
\* stored sample and the latch as they were, for every current value and
\* every prior latch; so a full reading after a null-soc tick that found
\* the latch true takes no new sample.
C18_NullSocNoInformation ==
    /\ LastNullSoc(sm.last) => (sm.value = sm.last.prev /\ sm.was_full = sm.last.latch)
    /\ (LastNullSoc(sm.last2) /\ sm.last2.latch /\ LastFull(sm.last))
          => (sm.value = sm.last2.prev /\ sm.was_full = TRUE)

\* Full, then a null soc with the latch true, then full again with another
\* value current: the sample of the first full reading stays.
C18_Witness ==
    /\ LastNullSoc(sm.last2) /\ sm.last2.latch
    /\ LastFull(sm.last)
    /\ ~IsNone(sm.last.current)
    /\ ~IsNone(sm.last2.prev)
    /\ sm.last.current # sm.last2.prev
    /\ sm.value = sm.last2.prev
    /\ sm.was_full


\* ------------------------------------------------------------------------
\* One restore of an SOH sensor from a stored record (SpecRestore)
\* ------------------------------------------------------------------------
\* fx.last_state : what async_get_last_state() returns; fx.raised and
\* fx.result (the sensor's fields) once fx.done
StoredStates == {Str("unknown"), Str("unavailable"), NumStr(92500)}
StoredStrategies == {Absent, None, Str("auto"), Str("manual"), List(<<Str("auto")>>)}
StoredNumbers == {Absent, None, Num(6000), Str("n/a"), List(<<>>), BigInt}

StoredRecords ==
    {[state |-> st,
      attributes |-> Opt("baseline_strategy", strategy)
                     @@ Opt("baseline_full_available_energy", baseline)
                     @@ Opt("last_sampled_full_available_energy", sample)] :
        st \in StoredStates, strategy \in StoredStrategies,
        baseline \in StoredNumbers, sample \in StoredNumbers}

RestoreInit ==
    /\ \E rec \in StoredRecords :
          fx = [fn |-> "async_added_to_hass", last_state |-> Stored(rec),
                done |-> FALSE, raised |-> FALSE, result |-> NewSoh]
    /\ OthersIdle

RestoreCall ==
    /\ fx.fn = "async_added_to_hass"
    /\ ~fx.done
    /\ fx' = [fx EXCEPT !.done = TRUE,
                        !.raised = Soh_restoreRaises(fx.last_state),
                        !.result = IF Soh_restoreRaises(fx.last_state) THEN NewSoh
                                   ELSE Soh_restore(fx.last_state)]
    /\ FxFrame

RestoreNext == RestoreCall

SpecRestore == RestoreInit /\ [][RestoreNext]_vars

\* A persisted field that is missing, not numeric or of an unexpected type.
Corrupt(x) == x.t \in {"null", "str", "list", "map", "bigint"}

\* C19: restore tolerates missing or corrupt persisted fields:
\* reconstructing an estimator from a persisted record whose state or
\* attributes are missing, non-numeric or of an unexpected type never
\* fails, and each such field is restored as "no prior state": null for
\* last_sample, baseline, auto_baseline and last_soh, false for was_full.
C19_RestoreTolerant ==
    (fx.fn = "async_added_to_hass" /\ fx.done) =>
        LET attributes == fx.last_state.attributes
        IN /\ ~fx.raised
           /\ Corrupt(fx.last_state.state) => IsNone(fx.result.last_soh)
           /\ Corrupt(Get(attributes, "baseline_full_available_energy"))
                 => IsNone(fx.result.baseline) /\ IsNone(fx.result.auto_baseline)
           /\ Corrupt(Get(attributes, "last_sampled_full_available_energy"))
                 => IsNone(fx.result.last_sample)
           /\ ~fx.result.was_full


\* A kalman_update call on an estimator with prior state that was given a
\* measurement.
UpdatingCall ==
    /\ fx.fn = "kalman_update"
    /\ fx.done
    /\ ~IsNone(fx.estimate)
    /\ ~IsNone(fx.variance)
    /\ ~IsNone(fx.measurement)

\* A returned number as a quotient.
AsRatio(x) == IF x.t = "ratio" THEN x ELSE Ratio(NumVal(x), 1)

\* C21: Kalman variance contraction: for every kalman_update with an
\* existing estimate and variance and a non-null measurement, the returned
\* variance is strictly less than prior variance + process variance, and
\* is never negative.
C21_VarianceContraction ==
    UpdatingCall =>
        LET returned == AsRatio(fx.result[2])
            q == fx.process_variance
        IN /\ returned.n >= 0
           /\ returned.n * q.d < (NumVal(fx.variance) * q.d + q.n) * returned.d


\* ------------------------------------------------------------------------
\* The system state of one call of summarize (SpecSummarize)
\* ------------------------------------------------------------------------
\* Reading a payload document: a key of a mapping, the first item of a list.
Field(x, k) == IF x.t = "map" THEN Get(x.v, k) ELSE None
First(x) == IF x.t = "list" /\ Len(x.v) > 0 THEN x.v[1] ELSE None

\* ems_data.state_str and ems.aggregated.state_str of the payload (strings
\* or null in every payload of the model).
OwnStateStr == Field(Field(First(Field(sz.payload.ems, "ems")), "ems_data"), "state_str")
AggregatedStateStr == Field(Field(sz.payload.ems, "aggregated"), "state_str")

\* C23: system_state fallback: metrics.system_state is ems_data.state_str
\* whenever that field is non-null, and ems.aggregated.state_str only when
\* it is null; a non-null but empty state_str is not replaced by the
\* aggregated value.
C23_SystemStateFallback ==
    Returned =>
        sz.result.data.metrics["system_state"]
            = IF ~IsNone(OwnStateStr) THEN OwnStateStr ELSE AggregatedStateStr


\* ------------------------------------------------------------------------
\* Reading an entity more than once per tick (Spec)
\* ------------------------------------------------------------------------
\* C24: re-reading a sensor against the same snapshot is idempotent: after
\* a tick has applied the sampler/estimator step to every entity, applying
\* it again with the same snapshot and options leaves last_sample,
\* was_full, auto_baseline, baseline and last_soh as they are, so the
\* number of native_value reads per tick does not affect the state.
C24_RereadIdempotent ==
    [][IsTick => ReadAll(entities', data', options) = entities']_vars

\* A refresh that took a fresh sample on every entity under "auto": the
\* second read finds the latch set and a value current.
C24_Witness ==
    /\ hist.op = "refresh"
    /\ options.strategy = "auto"
    /\ \A e \in SamplerEntities : entities[e].was_full /\ ~IsNone(entities[e].last_sample)


\* ------------------------------------------------------------------------
\* A run of one SOH sensor: ticks, option changes and restarts (SpecEstimator)
\* ------------------------------------------------------------------------
\* fx.kind     : "module" (the sensor of pack 0) or "total"
\* fx.self     : the sensor's fields
\* fx.strategy, fx.manual_baseline : entry.options, read at every tick
\* fx.op       : the last operation; fx.present: whether the last tick found
\*               snapshot data for the entity; fx.count: the number of
\*               modules in the last tick's snapshot
\* coordinator.data holding the battery modules ms.
SnapshotOf(ms) ==
    [ok |-> TRUE,
     data |-> [attributes |->
                  [battery |-> [modules |-> List([i \in 1..Len(ms) |-> Map(ms[i])])]]]]

Snapshots ==
    {SnapshotOf(ms) : ms \in {<<>>, <<ModuleFullA>>, <<ModuleFullB>>, <<ModuleLow>>,
                              <<ModuleNullSoc>>, <<ModuleFullA, ModuleFullB>>,
                              <<ModuleFullB, ModuleLow>>}}

EstimatorOptions ==
    [threshold |-> 99000, strategy |-> fx.strategy,
     manual_baseline |-> fx.manual_baseline, module_index |-> 0]

EstimatorInit ==
    /\ \E kind \in {"module", "total"}, o \in OptionChoices :
          fx = [fn |-> "soh_sensor", kind |-> kind, self |-> NewSoh,
                strategy |-> o.strategy, manual_baseline |-> o.manual_baseline,
                op |-> "new", present |-> FALSE, count |-> 0]
    /\ OthersIdle

\* native_value read against a snapshot.
EstimatorTick(snapshot) ==
    /\ fx.fn = "soh_sensor"
    /\ fx' = [fx EXCEPT
                !.self = IF fx.kind = "module"
                         THEN SohModule_native_value(fx.self, snapshot, EstimatorOptions)
                         ELSE SohTotal_native_value(fx.self, snapshot, EstimatorOptions),
                !.op = "tick",
                !.present = IF fx.kind = "module"
                            THEN Truthy(_module_data(snapshot, 0))
                            ELSE snapshot.ok,
                !.count = IF snapshot.ok THEN Len(ModulesOf(snapshot)) ELSE 0]
    /\ FxFrame

\* entry.options replaced while the sensor exists: it is not recreated and
\* reads the strategy and the manual baseline at its next tick.
EstimatorOptionsUpdated(strategy, manual_baseline) ==
    /\ fx.fn = "soh_sensor"
    /\ fx.op = "tick"
    /\ <<strategy, manual_baseline>> # <<fx.strategy, fx.manual_baseline>>
    /\ fx' = [fx EXCEPT !.strategy = strategy, !.manual_baseline = manual_baseline,
                        !.op = "options"]
    /\ FxFrame

\* A restart after the state was written: a new sensor restores it.
EstimatorRestart ==
    /\ fx.fn = "soh_sensor"
    /\ fx.op = "tick"
    /\ fx' = [fx EXCEPT
                !.self = Soh_restore(Stored(SohTotal_state(fx.self, NoData, EstimatorOptions))),
                !.op = "restore"]
    /\ FxFrame

EstimatorNext ==
    \/ \E snapshot \in Snapshots : EstimatorTick(snapshot)
    \/ \E o \in OptionChoices : EstimatorOptionsUpdated(o.strategy, o.manual_baseline)
    \/ EstimatorRestart

SpecEstimator == EstimatorInit /\ [][EstimatorNext]_vars

\* C25: under strategy "auto", after every SOH sensor tick with snapshot
\* data present, from a fresh or a restored state, auto_baseline >=
\* last_sample whenever last_sample > 0, and the published state of health
\* is null or between 0 and 100 inclusive.
C25_AutoBaselineBoundsSoh ==
    (fx.fn = "soh_sensor" /\ fx.op = "tick" /\ fx.present /\ fx.strategy = "auto") =>
        /\ (~IsNone(fx.self.last_sample) /\ NumVal(fx.self.last_sample) > 0)
              => /\ ~IsNone(fx.self.auto_baseline)
                 /\ NumVal(fx.self.auto_baseline) >= NumVal(fx.self.last_sample)
        /\ \/ IsNone(fx.self.last_soh)
           \/ /\ NumVal(fx.self.last_soh) >= 0
              /\ NumVal(fx.self.last_soh) <= 100 * Milli

\* A tick under "auto" that holds a sample below the automatic baseline:
\* the state of health is below 100.
C25_Witness ==
    /\ fx.fn = "soh_sensor" /\ fx.op = "tick" /\ fx.present /\ fx.strategy = "auto"
    /\ ~IsNone(fx.self.last_sample)
    /\ ~IsNone(fx.self.auto_baseline)
    /\ NumVal(fx.self.auto_baseline) > NumVal(fx.self.last_sample)
    /\ ~IsNone(fx.self.last_soh)
    /\ NumVal(fx.self.last_soh) < 100 * Milli


\* A tick under strategy "manual".
ManualTick == fx.fn = "soh_sensor" /\ fx'.op = "tick" /\ fx'.strategy = "manual"

\* The manual baseline as the sensor uses it: null when unset or not
\* positive, the per-module share for a module sensor, the value itself for
\* the total sensor.
ManualValue(kind, manual_baseline, count) ==
    IF IsNone(manual_baseline) \/ NumVal(manual_baseline) <= 0 THEN None
    ELSE IF kind = "module" /\ count # 0 THEN Num(NumVal(manual_baseline) \div count)
    ELSE manual_baseline

\* C26 as stated: under strategy "manual" a tick never changes
\* auto_baseline, so across a run of manual ticks it keeps the value it had
\* before the run, and after each of them baseline is the manual value
\* (the per-module share for a module sensor) or null.
C26_ManualKeepsAutoBaseline ==
    [][ManualTick =>
          /\ fx'.self.auto_baseline = fx.self.auto_baseline
          /\ \/ IsNone(fx'.self.baseline)
             \/ /\ ~IsNone(fx.manual_baseline)
                /\ \E n \in 1..(IF fx.kind = "module" THEN MaxModules + 1 ELSE 1) :
                      NumVal(fx'.self.baseline) * n = NumVal(fx.manual_baseline)]_vars

\* C26 as amended: under strategy "manual" a tick never changes
\* auto_baseline, and after each manual tick in which snapshot data for the
\* tracked entity is present baseline is the manual value (the per-module
\* share for a module sensor) or null; a tick without such data leaves
\* baseline as it was.
C26_ManualKeepsAutoBaselinePresent ==
    [][ManualTick =>
          /\ fx'.self.auto_baseline = fx.self.auto_baseline
          /\ fx'.self.baseline = IF fx'.present
                                 THEN ManualValue(fx.kind, fx.manual_baseline, fx'.count)
                                 ELSE fx.self.baseline]_vars

\* A manual tick of a module sensor that took a sample above the automatic
\* baseline it holds from an earlier "auto" period, with two modules
\* sharing the manual total.
C26_Witness ==
    /\ fx.fn = "soh_sensor" /\ fx.op = "tick" /\ fx.strategy = "manual"
    /\ fx.kind = "module" /\ fx.present /\ fx.count = 2
    /\ ~IsNone(fx.self.auto_baseline)
    /\ ~IsNone(fx.self.last_sample)
    /\ NumVal(fx.self.last_sample) > NumVal(fx.self.auto_baseline)
    /\ fx.self.baseline = Num(6000)


\* ------------------------------------------------------------------------
\* A module missing from the snapshot (Spec)
\* ------------------------------------------------------------------------
\* The tick's snapshot is absent or its module list ends before the index
\* of the module sensors.
ModuleMissing == ~data'.ok \/ options.module_index >= Len(ModulesOf(data'))

\* C27: a module that disappears from the snapshot leaves its estimator
\* untouched: on a tick without data or with the module index beyond the
\* module list the per-module full-energy sensor returns its stored
\* last_sample and the per-module SOH sensor its stored last_soh, and
\* neither changes last_sample, was_full, auto_baseline or baseline.
C27_MissingModuleUntouched ==
    [][(IsTick /\ ModuleMissing) =>
          /\ entities'.fe_module = entities.fe_module
          /\ entities'.soh_module = entities.soh_module
          /\ hist'.op \in {"write", "refresh"} =>
                /\ store'.fe_module.state = StateString(entities.fe_module.last_sample)
                /\ store'.soh_module.state = StateString(entities.soh_module.last_soh)]_vars

\* A refresh whose snapshot has lost the module of sensors that hold a
\* sample and a state of health, while the remaining pack is full.
C27_Witness ==
    /\ hist.op = "refresh"
    /\ data.ok
    /\ options.module_index >= Len(ModulesOf(data))
    /\ Len(ModulesOf(data)) > 0
    /\ entities.fe_total.was_full
    /\ ~IsNone(entities.fe_module.last_sample)
    /\ ~IsNone(entities.soh_module.last_soh)
    /\ store.fe_module.state = StateString(entities.fe_module.last_sample)


\* ------------------------------------------------------------------------
\* The coordinator-backed sensors over a sequence of snapshots (SpecSensors)
\* ------------------------------------------------------------------------
\* The keys of SENSOR_DESCRIPTIONS and those whose value is kept.
SensorKeys ==
    {"system_state", "health_state", "battery_soc", "battery_temperature",
     "battery_power", "grid_power", "solar_power", "load_power", "frequency",
     "voltage_l1", "voltage_l2", "voltage_l3", "schedule_state", "next_charge_start",
     "next_discharge_start", "next_non_idle_start", "next_non_idle_state",
     "schedule_setpoint", "grid_energy_imported", "grid_energy_exported",
     "solar_energy_produced", "solar_energy_consumed", "battery_energy_imported",
     "battery_energy_exported"}

_should_persist_value(key) ==
    key \in {"schedule_state", "schedule_setpoint", "next_charge_start",
             "next_discharge_start", "next_non_idle_start", "next_non_idle_state"}

\* entity_description.value_fn(data)
value_fn(key, snapshot) ==
    IF key = "next_non_idle_state"
    THEN Or(Get(snapshot.data.metrics, key), Str("unknown"))
    ELSE Get(snapshot.data.metrics, key)

\* HomevoltSensor.native_value: the pair (returned value, _last_value).
HomevoltSensor_native_value(key, last_value, snapshot) ==
    IF ~snapshot.ok
    THEN <<IF _should_persist_value(key) THEN last_value ELSE None, last_value>>
    ELSE LET value == value_fn(key, snapshot)
         IN IF IsNone(value) /\ _should_persist_value(key)
            THEN <<last_value, last_value>>
            ELSE <<value, value>>

\* fx.last_value : _last_value of the sensor of each key
\* fx.published  : the value each sensor returned at the last tick
\* fx.current    : the metrics of the last snapshot, per key (null: absent)
\* fx.seen       : the most recent non-null metric of each key (null: none)
SensorPayloads ==
    {Payload(st, e, sc, BaseReport) :
        st \in Statuses,
        e \in EmsBlobs,
        sc \in {None, BaseSchedule, ScheduleOf(<<EntryIdle>>), ScheduleOf(<<EntryUnknown>>)}}

SensorsInit ==
    /\ fx = [fn |-> "sensor", ticks |-> 0,
             last_value |-> [key \in SensorKeys |-> None],
             published |-> [key \in SensorKeys |-> None],
             current |-> [key \in SensorKeys |-> None],
             seen |-> [key \in SensorKeys |-> None]]
    /\ OthersIdle

\* The sensors' fields after every sensor is read on snapshot.
SensorsRead(last_value, seen, ticks, snapshot) ==
    [fn |-> "sensor", ticks |-> ticks,
     last_value |-> [key \in SensorKeys |->
         HomevoltSensor_native_value(key, last_value[key], snapshot)[2]],
     published |-> [key \in SensorKeys |->
         HomevoltSensor_native_value(key, last_value[key], snapshot)[1]],
     current |-> [key \in SensorKeys |-> Get(snapshot.data.metrics, key)],
     seen |-> [key \in SensorKeys |->
         IF IsNone(Get(snapshot.data.metrics, key)) THEN seen[key]
         ELSE Get(snapshot.data.metrics, key)]]

\* A refresh publishing summarize(payload, now): every sensor is read.
SensorsTick(payload, now) ==
    /\ fx.fn = "sensor"
    /\ fx.ticks < MaxTicks
    /\ summarize(payload, now).ok
    /\ fx' = SensorsRead(fx.last_value, fx.seen, fx.ticks + 1, summarize(payload, now))
    /\ FxFrame

SensorsNext == \E payload \in SensorPayloads, now \in Instants : SensorsTick(payload, now)

SpecSensors == SensorsInit /\ [][SensorsNext]_vars

\* C28: schedule sensors hold their last value: after any sequence of
\* snapshots the sensors of schedule_state, schedule_setpoint,
\* next_charge_start, next_discharge_start, next_non_idle_start and
\* next_non_idle_state publish the metric's most recent non-null value
\* (null only if none was ever seen), and every other sensor publishes the
\* current snapshot's metric, null included.
C28_ScheduleSensorsHold ==
    (fx.fn = "sensor" /\ fx.ticks > 0) =>
        \A key \in SensorKeys :
            fx.published[key] = IF _should_persist_value(key) THEN fx.seen[key]
                                ELSE fx.current[key]

\* ------------------------------------------------------------------------
\* The error summary of a snapshot
\* ------------------------------------------------------------------------
\* The number of active_items over the buckets named in names.
RECURSIVE BucketTotal(_, _)
BucketTotal(buckets, names) ==
    IF names = {} THEN 0
    ELSE LET n == CHOOSE x \in names : TRUE
         IN Len(buckets[n].v["active_items"].v) + BucketTotal(buckets, names \ {n})

\* C29: in every snapshot warning_count + error_count equals the length of
\* attributes.errors.active_items and the total number of active_items
\* over all subsystem buckets; the keys of metrics.subsystem_status are
\* exactly the subsystem names of the active items, "unknown" for a record
\* whose name is missing or null, and each of them maps to true.
C29_ErrorSummaryConsistent ==
    Returned =>
        LET active == SelectSeq(RecordsOf(sz.payload.error_report), IsActive)
            m == sz.result.data.metrics
            e == sz.result.data.attributes["errors"]
            items == e["active_items"].v
            buckets == e["subsystems"].v
            status == m["subsystem_status"].v
        IN /\ \E w, r \in 0..Len(items) :
                 /\ m["warning_count"] = IntJ(w)
                 /\ m["error_count"] = IntJ(r)
                 /\ w + r = Len(items)
           /\ BucketTotal(buckets, DOMAIN buckets) = Len(items)
           /\ DOMAIN status = {items[k].v["sub_system_name"].v : k \in 1..Len(items)}
           /\ Len(active) = Len(items)
           /\ \A k \in 1..Len(items) :
                 IsNone(Get(active[k].v, "sub_system_name"))
                     => items[k].v["sub_system_name"] = Str("unknown")
           /\ \A n \in DOMAIN status : status[n] = Bool(TRUE)

\* A returned snapshot of a report with two active records of different
\* subsystems, one of them without a name.
C29_Witness ==
    /\ Returned
    /\ LET m == sz.result.data.metrics
           items == sz.result.data.attributes["errors"]["active_items"].v
       IN /\ Len(items) = 2
          /\ DOMAIN m["subsystem_status"].v = {"EMS", "unknown"}
          /\ \E k \in 1..2 :
                IsNone(Get(SelectSeq(RecordsOf(sz.payload.error_report), IsActive)[k].v,
                           "sub_system_name"))

\* ------------------------------------------------------------------------
\* binary_sensor.py: the problem sensor over one refresh (SpecProblem)
\* ------------------------------------------------------------------------
\* The value_fn counting errors only.
problem_value_fn_errors(snapshot) ==
    Bool(NumVal(Or(Get(snapshot.data.metrics, "error_count"), IntJ(0))) # 0)

\* value_fn of the "problem" description: bool(warnings or 0 + errors or 0)
problem_value_fn(snapshot) ==
    Bool(NumVal(Or(Get(snapshot.data.metrics, "warning_count"), IntJ(0)))
         + NumVal(Or(Get(snapshot.data.metrics, "error_count"), IntJ(0))) # 0)

\* HomevoltBinarySensor.is_on of the problem sensor
HomevoltBinarySensor_is_on(snapshot) ==
    IF ~snapshot.ok THEN None ELSE Bool(Truthy(problem_value_fn(snapshot)))

ProblemPayloads ==
    {Payload(StatusFull, e, BaseSchedule, r) : e \in {EmsFull, Map(EmptyMap)}, r \in Reports}

\* fx.snapshot : coordinator.data, [ok |-> FALSE] before the first refresh
\* fx.is_on    : what the problem sensor reports for fx.snapshot
ProblemInit ==
    /\ \E payload \in ProblemPayloads, now \in Instants :
          fx = [fn |-> "problem", payload |-> payload, now |-> now, done |-> FALSE,
                snapshot |-> [ok |-> FALSE],
                is_on |-> HomevoltBinarySensor_is_on([ok |-> FALSE])]
    /\ OthersIdle

\* The refresh publishing summarize(payload, now); the sensor is read.
ProblemRefresh ==
    /\ fx.fn = "problem"
    /\ ~fx.done
    /\ summarize(fx.payload, fx.now).ok
    /\ fx' = [fx EXCEPT !.done = TRUE, !.snapshot = summarize(fx.payload, fx.now),
                        !.is_on = HomevoltBinarySensor_is_on(summarize(fx.payload, fx.now))]
    /\ FxFrame

ProblemNext == ProblemRefresh

SpecProblem == ProblemInit /\ [][ProblemNext]_vars

\* C30: for every snapshot the problem binary sensor is on if and only if
\* health_state is "warning" or "error"; when the error report is missing
\* health_state is "unknown", both counters are 0 and the sensor is off.
C30_ProblemAgreesWithHealth ==
    (fx.fn = "problem" /\ fx.done) =>
        LET m == fx.snapshot.data.metrics
        IN /\ fx.is_on = Bool(m["health_state"] \in {Str("warning"), Str("error")})
           /\ IsNone(fx.payload.error_report) =>
                 /\ m["health_state"] = Str("unknown")
                 /\ m["warning_count"] = IntJ(0)
                 /\ m["error_count"] = IntJ(0)
                 /\ fx.is_on = Bool(FALSE)

\* A snapshot of a report with warnings only: the sensor is on.
C30_Witness ==
    /\ fx.fn = "problem"
    /\ fx.done
    /\ fx.snapshot.data.metrics["health_state"] = Str("warning")
    /\ fx.snapshot.data.metrics["error_count"] = IntJ(0)
    /\ fx.is_on = Bool(TRUE)

====
